---- MODULE Spec2Model ----
(***************************************************************************)
(* A model of the NEXRAD Level-II file decoder NEXRADLevel2File of         *)
(* src/python/nexrad_l2.py: the container layer (bzip2 streams, gzip       *)
(* payload), the record parser, the scan grouper and the partial-read      *)
(* mode that computes per-scan byte ranges.                                *)
(*                                                                         *)
(* Granularity.  A file is a sequence of compressed streams (bzip2) or one *)
(* payload (gzip) holding messages.  A message is a record of the header   *)
(* and block fields the decoder branches on; its length in bytes follows   *)
(* the decoder's cursor rule, so byte offsets, the 300- and 10000-byte     *)
(* decompression limits and the 1000-byte stream filter are computed, not  *)
(* assumed.  The gate arrays of a message are identified with the message  *)
(* (field id): two decodes yield the same moment data for a ray iff they   *)
(* yield the same message.  The structures at the head of a message        *)
(* (MSG_HEADER, MSG_31/MSG_1, VOL/ELV/RAD) are taken to lie within a       *)
(* decompressed prefix whenever the message starts within it.              *)
(*                                                                         *)
(* Python lists are 0-based; sequences here are 1-based.  Values that the  *)
(* code stores as list indices (scan_msgs, _bzip2_read_indices,            *)
(* indices_select) keep their 0-based Python value, and PyGet translates.  *)
(***************************************************************************)
EXTENDS Integers, Sequences, FiniteSets, TLC

VARIABLES
    file,       \* the input file (never changes after Init)
    pc,         \* "new": not constructed; "ready": __init__ returned; "called": __call__ returned; "failed": the last decode raised
    err,        \* the exception the last decode raised, or "none"
    fh_closed,  \* self._fh.closed
    opens,      \* how many times the file has been opened (the identity of self._fh)
    cache,      \* self._buf: bzip2: the set of cached range keys; gzip: the number of payload bytes read
    self,       \* the decoder's attributes set by decode_file
    request,    \* the read_mode argument of the last decode_file call
    reopened,   \* the last decode fell back from 'min-meta' to 'all-meta' (the code prints 'reopen')
    result,     \* what the last query or module-level function call returned
    s_before,   \* the module global s_before: per structure name, the bytes unpacked last
    dic_before, \* the module global dic_before: per structure name, the map unpacked last
    thread      \* per thread calling _unpack_from_buf: its position in the function and its locals

vars == <<file, pc, err, fh_closed, opens, cache, self, request, reopened,
          result, s_before, dic_before, thread>>

\* The module globals and the threads, which decode_file's own steps leave alone.
unpack_vars == <<s_before, dic_before, thread>>

(***************************************************************************)
(* Program constants                                                       *)
(***************************************************************************)
RECORD_SIZE == 2432
COMPRESSION_RECORD_SIZE == 12
MSG_HEADER_SIZE == 16
VOLUME_HEADER_SIZE == 24
CONTROL_WORD_SIZE == 4
META_MAX_LENGTH == 300
RAD_MAX_LENGTH == 10000
MIN_STREAM_DIFF == 1000
gzip_indices_step == 30

(***************************************************************************)
(* Bounds of the model                                                     *)
(***************************************************************************)
MaxScans == 2

None == -999999   \* Python's None in a [start_pos, end_pos] pair

(***************************************************************************)
(* Small helpers                                                           *)
(***************************************************************************)
Min(a, b) == IF a < b THEN a ELSE b
Max(a, b) == IF a > b THEN a ELSE b

RECURSIVE SumSeq(_)
SumSeq(s) ==
    IF Len(s) = 0 THEN 0
    ELSE IF Len(s) = 1 THEN s[1]
    ELSE SumSeq(SubSeq(s, 1, Len(s) \div 2)) + SumSeq(SubSeq(s, Len(s) \div 2 + 1, Len(s)))

RECURSIVE Flatten(_)
Flatten(ss) ==
    IF Len(ss) = 0 THEN <<>>
    ELSE IF Len(ss) = 1 THEN ss[1]
    ELSE Flatten(SubSeq(ss, 1, Len(ss) \div 2)) \o Flatten(SubSeq(ss, Len(ss) \div 2 + 1, Len(ss)))

Range(s) == {s[i] : i \in DOMAIN s}

\* Python's list[k] for an integer k: negative k counts from the end.
PyOk(s, k) == k < Len(s) /\ k >= -Len(s)
PyGet(s, k) == IF k < 0 THEN s[Len(s) + k + 1] ELSE s[k + 1]

\* range(n) as a sequence: 0, 1, ..., n - 1.
Indices(n) == [i \in 1..n |-> i - 1]

(***************************************************************************)
(* Messages                                                                *)
(*   t    header.type            sz   header.size (halfwords)              *)
(*   e    elevation_number       a    azimuth_number                       *)
(*   rad  a RAD block is present (type 31)                                 *)
(*   ng0  a moment block with ngates == 0 is present                       *)
(*   cuts the super_resolution flags of a type-5 message's cuts            *)
(*   pn   the pattern_number of a type-5 message                           *)
(*   id   identity of the message in the file (its gate arrays)            *)
(***************************************************************************)
Msg(t, e, a) ==
    [t |-> t, sz |-> 1200, e |-> e, a |-> a, rad |-> (t = 31), ng0 |-> FALSE,
     cuts |-> <<>>, pn |-> 0, id |-> 0]

VcpMsg(cuts, pn) == [Msg(5, 0, 0) EXCEPT !.cuts = cuts, !.pn = pn]
StatusMsg == Msg(2, 0, 0)

\* The record _read_records appends for an empty buffer: {'header': {'type': 0}}.
Placeholder == [Msg(0, 0, 0) EXCEPT !.sz = 0]

\* The cursor rule of _get_record_from_buf: new_pos - pos.
MsgLen(m) ==
    IF m.t = 31 THEN MSG_HEADER_SIZE + (m.sz * 2 - 4)
    ELSE IF m.t = 29 THEN MSG_HEADER_SIZE + m.sz
    ELSE RECORD_SIZE

RECURSIVE BytesOf(_)
BytesOf(ms) ==
    IF Len(ms) = 0 THEN 0
    ELSE IF Len(ms) = 1 THEN MsgLen(ms[1])
    ELSE BytesOf(SubSeq(ms, 1, Len(ms) \div 2)) + BytesOf(SubSeq(ms, Len(ms) \div 2 + 1, Len(ms)))

(***************************************************************************)
(* Input files                                                             *)
(*                                                                         *)
(* A stream is [recs, ok, clen]: the messages it decompresses to, whether  *)
(* bz2 can decompress it, and its length in the compressed file (up to the *)
(* next stream start).  A gzip file has one stream, the payload.           *)
(*                                                                         *)
(* The files are well-formed volumes (stream 0 holds the VCP message, cut  *)
(* j fills 3 or 6 streams of rays with elevation number j; TDWR volumes    *)
(* have no VCP and 3 streams per scan), each with at most one of the       *)
(* irregularities the decoder's comments name: a leading message without   *)
(* RAD block, a stream that fails to decompress, an undersized stream, a   *)
(* mix of type-1 and type-31 rays, a block with ngates == 0, a missing     *)
(* elevation, a scan that ends early, two concatenated volumes, a scan     *)
(* whose first azimuth number is not 1.                                    *)
(***************************************************************************)
CutKinds == {0, 7}

\* Variant: every cut is taken to fill 3 streams.
ThreeStreamsPerCut(sr) == 3

\* line 187: a cut fills 3 streams, a super-resolution cut 6.
StreamsPerCut(sr) == 3 + 3 * (IF sr \in {11, 7} THEN 1 ELSE 0)

Stream(ms) == [recs |-> ms, ok |-> TRUE, clen |-> 1500]
RayStream(e, k) == Stream(<<Msg(31, e, 2 * k - 1), Msg(31, e, 2 * k)>>)
ScanStreams(e, n) == [k \in 1..n |-> RayStream(e, k)]

SeqsUpTo(S, n) == UNION {[1..k -> S] : k \in 1..n}

BzBody(kinds) ==
    Flatten([j \in 1..Len(kinds) |-> ScanStreams(j, StreamsPerCut(kinds[j]))])

BzBase(kinds, vcpMode) ==
    CASE vcpMode = "vcp"   -> <<Stream(<<VcpMsg(kinds, 212)>>)>> \o BzBody(kinds)
      [] vcpMode = "avset" -> <<Stream(<<VcpMsg(kinds \o <<0>>, 212)>>)>> \o BzBody(kinds)
      [] vcpMode = "tdwr"  -> <<Stream(<<StatusMsg>>)>> \o BzBody([j \in 1..Len(kinds) |-> 0])
      [] OTHER             -> BzBody([j \in 1..Len(kinds) |-> 0])

ElevOf(st) == IF st.recs = <<>> THEN 0 ELSE st.recs[1].e

\* Stream 0 and the first and the last stream of every scan.
Locs(ss) ==
    {k \in 1..Len(ss) :
        \/ k = 1 \/ k = Len(ss)
        \/ ElevOf(ss[k]) # ElevOf(ss[k - 1])
        \/ ElevOf(ss[k]) # ElevOf(ss[k + 1])}

BzDefects ==
    {"norad", "noradall", "status", "bad", "small", "t1", "ng0", "straddle",
     "elevup", "dup", "drop", "empty"}

Splice(ss, k, mid) == SubSeq(ss, 1, k - 1) \o mid \o SubSeq(ss, k + 1, Len(ss))

Damaged(st, kind) ==
    LET ms == st.recs
        n  == Len(ms)
    IN CASE kind = "norad"    -> [st EXCEPT !.recs = [j \in 1..n |-> IF j = 1 THEN [ms[j] EXCEPT !.rad = FALSE] ELSE ms[j]]]
         [] kind = "noradall" -> [st EXCEPT !.recs = [j \in 1..n |-> [ms[j] EXCEPT !.rad = FALSE]]]
         [] kind = "status"   -> [st EXCEPT !.recs = <<StatusMsg>> \o ms]
         [] kind = "bad"      -> [st EXCEPT !.ok = FALSE]
         [] kind = "small"    -> [st EXCEPT !.clen = 900]
         [] kind = "t1"       -> [st EXCEPT !.recs = [j \in 1..n |-> [ms[j] EXCEPT !.t = IF @ = 31 THEN 1 ELSE @, !.rad = FALSE]]]
         [] kind = "ng0"      -> [st EXCEPT !.recs = [j \in 1..n |-> IF j = 1 THEN [ms[j] EXCEPT !.ng0 = TRUE] ELSE ms[j]]]
         [] kind = "straddle" -> [st EXCEPT !.recs = ms \o <<Msg(31, ElevOf(st) + 1, 1)>>]
         [] kind = "elevup"   -> [st EXCEPT !.recs = [j \in 1..n |-> [ms[j] EXCEPT !.e = IF ms[j].t \in {1, 31} THEN @ + 1 ELSE @]]]
         [] kind = "empty"    -> [st EXCEPT !.recs = <<>>]
         [] OTHER             -> st

BzDamage(ss, kind, k) ==
    CASE kind = "dup"  -> Splice(ss, k, <<ss[k], ss[k]>>)
      [] kind = "drop" -> Splice(ss, k, <<>>)
      [] OTHER         -> Splice(ss, k, <<Damaged(ss[k], kind)>>)

\* Give every message its identity: 100 * (stream number) + (place in the stream).
WithIds(ss) ==
    [k \in 1..Len(ss) |->
        [ss[k] EXCEPT !.recs = [j \in 1..Len(ss[k].recs) |-> [ss[k].recs[j] EXCEPT !.id = 100 * k + j]]]]

BzFile(ss) == [bz |-> TRUE, streams |-> WithIds(ss)]

BzBases ==
    {BzBase(kinds, m) : kinds \in SeqsUpTo(CutKinds, MaxScans), m \in {"vcp", "avset", "tdwr", "none"}}

BzFiles ==
    {BzFile(b) : b \in BzBases}
    \cup UNION {{BzFile(BzDamage(b, kind, k)) : kind \in BzDefects, k \in Locs(b)} : b \in BzBases}

\* gzip volumes: an optional VCP message, then per scan 30 or 60 rays of one
\* message type with azimuth numbers from 1, with at most one irregular scan.
GzScanLens == {30, 60}
GzRays(t, e, n) == [k \in 1..n |-> Msg(t, e, k)]
GzBody(t, lens) == [j \in 1..Len(lens) |-> GzRays(t, j, lens[j])]

GzDefects ==
    {"norad", "status", "mixed", "ng0", "short", "azi2", "elevup", "dup", "drop"}

GzDamaged(ms, kind) ==
    LET n == Len(ms)
    IN CASE kind = "norad"  -> <<[ms[1] EXCEPT !.rad = FALSE]>> \o Tail(ms)
         [] kind = "status" -> <<StatusMsg>> \o ms
         [] kind = "mixed"  -> [j \in 1..n |-> [ms[j] EXCEPT !.t = IF @ = 31 THEN 1 ELSE 31,
                                                           !.rad = (ms[j].t = 1)]]
         [] kind = "ng0"    -> <<[ms[1] EXCEPT !.ng0 = TRUE]>> \o Tail(ms)
         [] kind = "short"  -> SubSeq(ms, 1, 5)
         [] kind = "azi2"   -> Tail(ms)
         [] kind = "elevup" -> [j \in 1..n |-> [ms[j] EXCEPT !.e = @ + 1]]
         [] kind = "dup"    -> ms \o ms
         [] kind = "drop"   -> <<>>
         [] OTHER           -> ms

GzFile(pre, scans) == [bz |-> FALSE, streams |-> WithIds(<<Stream(pre \o Flatten(scans))>>)]

GzPres == {<<>>, <<VcpMsg(<<0>>, 212)>>}

GzBases == {GzBody(t, lens) : t \in {1, 31}, lens \in SeqsUpTo(GzScanLens, MaxScans)}

GzFiles ==
    {GzFile(pre, b) : pre \in GzPres, b \in GzBases}
    \cup UNION {{GzFile(pre, [b EXCEPT ![k] = GzDamaged(b[k], kind)]) :
                    pre \in GzPres, kind \in GzDefects, k \in 1..Len(b)} : b \in GzBases}

\* Files without any radial record.
NoRadialFiles ==
    {BzFile(<<Stream(<<VcpMsg(<<0>>, 212)>>)>>),
     BzFile(<<Stream(<<StatusMsg>>)>>),
     BzFile(<<Stream(<<VcpMsg(<<0>>, 212)>>), Stream(<<StatusMsg>>), Stream(<<StatusMsg>>),
              Stream(<<StatusMsg>>)>>),
     BzFile(<<Stream(<<StatusMsg>>), Stream(<<StatusMsg>>), Stream(<<StatusMsg>>)>>),
     GzFile(<<>>, <<>>),
     GzFile(<<VcpMsg(<<0>>, 212)>>, <<>>),
     GzFile(<<VcpMsg(<<0>>, 212), StatusMsg>>, <<>>),
     GzFile(<<StatusMsg>>, <<>>)}

\* Two concatenated volumes: the first n scans of an earlier volume, then the
\* whole volume (in a bzip2 file each with its metadata stream).
ConcatBz(kinds, n) ==
    BzFile(<<Stream(<<VcpMsg(kinds, 212)>>)>> \o BzBody(SubSeq(kinds, 1, n))
           \o <<Stream(<<VcpMsg(kinds, 212)>>)>> \o BzBody(kinds))
ConcatGz(lens, n) ==
    GzFile(<<VcpMsg(<<0>>, 212)>>, SubSeq(GzBody(31, lens), 1, n) \o GzBody(31, lens))

ConcatFiles ==
    {ConcatBz([j \in 1..MaxScans |-> 0], n) : n \in 1..MaxScans}
    \cup {ConcatGz([j \in 1..MaxScans |-> 30], n) : n \in 1..MaxScans}

\* Incomplete gzip volumes: every scan lacks its first 40 rays, so that its
\* azimuth numbers count up from 41.
LateGzFiles ==
    {GzFile(<<VcpMsg(<<0>>, 212)>>,
            [j \in 1..Len(lens) |-> [k \in 1..lens[j] |-> Msg(31, j, 40 + k)]]) :
        lens \in SeqsUpTo(GzScanLens, MaxScans)}

Files == BzFiles \cup GzFiles \cup NoRadialFiles \cup ConcatFiles \cup LateGzFiles


(***************************************************************************)
(* Container layer                                                         *)
(***************************************************************************)
\* A decompressed buffer: the messages it holds and its length in bytes.
\* A buffer cut short by max_length still names its messages; the record
\* parser only reaches those that start below len.
Buf(ms, n) == [recs |-> ms, len |-> n]
EmptyBuf == Buf(<<>>, 0)

RECURSIVE StartsFrom(_, _)
StartsFrom(ss, p) ==
    IF ss = <<>> THEN <<>> ELSE <<p>> \o StartsFrom(Tail(ss), p + Head(ss).clen)

\* Positions of the stream starts ('BZh' + magic) in the compressed file.
_get_bzip2_start_indices(f) ==
    StartsFrom(f.streams, VOLUME_HEADER_SIZE + CONTROL_WORD_SIZE)

\* lines 171-175: the starts whose distance to the next start (to the end of
\* the file for the last one) exceeds 1000 bytes.
FilteredStartPos(f) ==
    LET sp == _get_bzip2_start_indices(f)
        keep == SelectSeq(Indices(Len(sp)), LAMBDA i : f.streams[i + 1].clen > MIN_STREAM_DIFF)
    IN [j \in 1..Len(keep) |-> sp[keep[j] + 1]]

\* The stream of the file that starts at position p.
StreamAt(f, p) ==
    LET sp == _get_bzip2_start_indices(f)
    IN f.streams[CHOOSE k \in 1..Len(sp) : sp[k] = p]

\* Variant: a stream that fails to decompress still yields its messages.
DecompressIgnoringErrors(f, bzip2_start_pos, bzip2_read_indices, max_length) ==
    [j \in 1..Len(bzip2_read_indices) |->
        Buf(StreamAt(f, bzip2_start_pos[bzip2_read_indices[j] + 1]).recs,
            IF bzip2_read_indices[j] > 0
            THEN Min(BytesOf(StreamAt(f, bzip2_start_pos[bzip2_read_indices[j] + 1]).recs), max_length)
            ELSE BytesOf(StreamAt(f, bzip2_start_pos[bzip2_read_indices[j] + 1]).recs))]

\* One buffer per requested stream index; stream 0 in full, the others up to
\* max_length bytes; an empty buffer for a stream that fails to decompress.
_decompress_records_meta(f, bzip2_start_pos, bzip2_read_indices, max_length) ==
    [j \in 1..Len(bzip2_read_indices) |->
        LET i  == bzip2_read_indices[j]
            st == StreamAt(f, bzip2_start_pos[i + 1])
        IN IF ~st.ok THEN EmptyBuf
           ELSE Buf(st.recs, IF i > 0 THEN Min(BytesOf(st.recs), max_length)
                             ELSE BytesOf(st.recs))]

\* The streams bz2.decompress goes through in one shot: it stops silently at
\* a stream it cannot decompress, unless that is the first one.
RECURSIVE UntilBad(_)
UntilBad(ss) ==
    IF ss = <<>> \/ ~Head(ss).ok THEN <<>> ELSE Head(ss).recs \o UntilBad(Tail(ss))

\* _read_bzip2 on a miss of the cache: seek, read, _decompress_records.
\* [err, buf].  read(n) with n < -1 raises ValueError.
_decompress_range(f, startend_pos) ==
    LET a  == startend_pos[1]
        b  == startend_pos[2]
        sp == _get_bzip2_start_indices(f)
        in == SelectSeq([k \in 1..Len(sp) |-> k],
                        LAMBDA k : sp[k] >= a /\ (b = None \/ sp[k] < b))
        ss == [j \in 1..Len(in) |-> f.streams[in[j]]]
    IN IF b # None /\ b - a < -1 THEN [err |-> "ValueError:read", buf |-> EmptyBuf]
       ELSE IF ss # <<>> /\ ~ss[1].ok THEN [err |-> "OSError", buf |-> EmptyBuf]
       ELSE [err |-> "none", buf |-> Buf(UntilBad(ss), BytesOf(UntilBad(ss)))]

\* The gzip payload after the 24-byte volume header and the 12 bytes read as
\* compression record: its messages and its length.
Payload(f) == f.streams[1].recs
PayloadLen(f) == Max(0, BytesOf(Payload(f)) - COMPRESSION_RECORD_SIZE)

\* The positions at which the messages ms start when the first starts at p,
\* and the position after the last.
RECURSIVE Cursor(_, _)
Cursor(ms, p) ==
    IF Len(ms) = 0 THEN [off |-> <<>>, end |-> p]
    ELSE IF Len(ms) = 1 THEN [off |-> <<p>>, end |-> p + MsgLen(ms[1])]
    ELSE LET a == Cursor(SubSeq(ms, 1, Len(ms) \div 2), p)
             b == Cursor(SubSeq(ms, Len(ms) \div 2 + 1, Len(ms)), a.end)
         IN [off |-> a.off \o b.off, end |-> b.end]

OffsetsFrom(ms, p) == Cursor(ms, p).off

\* buf[a:b] of the first n cached payload bytes (b = None: to the end).
GzSlice(f, n, a, b) ==
    LET hi  == IF b = None THEN n ELSE Min(b, n)
        off == OffsetsFrom(Payload(f), 0)
        in  == SelectSeq([k \in 1..Len(off) |-> k], LAMBDA k : off[k] >= a /\ off[k] < hi)
    IN Buf([j \in 1..Len(in) |-> Payload(f)[in[j]]], Max(0, hi - a))

\* _read_gzip(startend_pos): [cache, buf], cache the bytes read so far.
_read_gzip(f, n, startend_pos) ==
    LET b  == startend_pos[2]
        n2 == IF b = None \/ b = 0 THEN PayloadLen(f)
              ELSE IF n < b THEN Min(PayloadLen(f), b) ELSE n
    IN [cache |-> n2, buf |-> GzSlice(f, n2, startend_pos[1], b)]

\* _read_gzip(): the whole payload.
_read_gzip_all(f, n) ==
    [cache |-> PayloadLen(f), buf |-> GzSlice(f, PayloadLen(f), 0, None)]

(***************************************************************************)
(* Record parser                                                           *)
(***************************************************************************)
\* The while loop of _read_records over one buffer: the start position and
\* the message of every record reached while pos < buf_length.
Walk(ms, pos, buf_length) ==
    LET off  == OffsetsFrom(ms, pos)
        keep == {k \in 1..Len(ms) : off[k] < buf_length}
    IN [k \in 1..Cardinality(keep) |-> [pos |-> off[k], rec |-> ms[k]]]

\* The records of a bzip2 stream's buffer, after its 12-byte compression record.
WalkBuf(b) == Walk(b.recs, COMPRESSION_RECORD_SIZE, b.len)

\* 'RAD' in dic: only a type-31 record can carry a RAD block.
HasRAD(m) == m.t = 31 /\ m.rad

MinOf(S) == CHOOSE x \in S : \A y \in S : x <= y

\* Lines 365-393 for one buffer when every record is kept.
ReadBufAll(b, bz) ==
    IF b.len = 0 THEN [records |-> <<Placeholder>>, start_pos |-> <<-1>>]
    ELSE LET w == Walk(b.recs, IF bz THEN COMPRESSION_RECORD_SIZE ELSE 0, b.len)
         IN [records   |-> [k \in 1..Len(w) |-> w[k].rec],
             start_pos |-> [k \in 1..Len(w) |-> w[k].pos]]

\* lines 378-384: the second pass over up to 10000 bytes of a stream whose
\* first record has no RAD block: the first record with one, else the last
\* record read (first when nothing is read).
SecondPass(first, w2) ==
    LET hits == {k \in 1..Len(w2) : HasRAD(w2[k].rec)}
    IN IF w2 = <<>> THEN first
       ELSE IF hits = {} THEN w2[Len(w2)].rec
       ELSE w2[MinOf(hits)].rec

\* Lines 370-393 in bzip2 metadata mode for buffer number i (0-based, the
\* enumerate index), w the records the while loop can reach: at most one
\* record is kept, for stream 0 the first of type 1, 31 or 5.
KeepOne(f, bzip2_start_pos, i, w) ==
    IF w = <<>> THEN [records |-> <<>>, start_pos |-> <<>>]
    ELSE IF i > 0 THEN
        IF ~HasRAD(w[1].rec) THEN
            [records   |-> <<SecondPass(w[1].rec,
                                WalkBuf(_decompress_records_meta(f, bzip2_start_pos, <<i>>, RAD_MAX_LENGTH)[1]))>>,
             start_pos |-> <<w[1].pos>>]
        ELSE [records |-> <<w[1].rec>>, start_pos |-> <<w[1].pos>>]
    ELSE
        LET hits == {k \in 1..Len(w) : w[k].rec.t \in {1, 31, 5}}
        IN IF hits = {}
           THEN [records |-> <<>>, start_pos |-> [k \in 1..Len(w) |-> w[k].pos]]
           ELSE [records   |-> <<w[MinOf(hits)].rec>>,
                 start_pos |-> [k \in 1..MinOf(hits) |-> w[k].pos]]

\* Lines 365-393 for buffer number i in bzip2 metadata mode.
ReadBufMeta(f, bzip2_start_pos, i, b) ==
    IF b.len = 0 THEN [records |-> <<Placeholder>>, start_pos |-> <<-1>>]
    ELSE KeepOne(f, bzip2_start_pos, i, WalkBuf(b))

\* self._records and self._records_start_pos: the per-buffer lists joined.
JoinBufs(per) ==
    [records   |-> Flatten([j \in 1..Len(per) |-> per[j].records]),
     start_pos |-> Flatten([j \in 1..Len(per) |-> per[j].start_pos])]

\* _read_records(buf): [records, start_pos] (self._records, self._records_start_pos).
_read_records(f, bzip2_start_pos, bufs, bz, meta) ==
    JoinBufs([j \in 1..Len(bufs) |->
                 IF bz /\ meta THEN ReadBufMeta(f, bzip2_start_pos, j - 1, bufs[j])
                 ELSE ReadBufAll(bufs[j], bz)])

\* _get_vcp: the first type-5 record, or {} (the empty sequence).
_get_vcp(records) ==
    LET msg_5 == SelectSeq(records, LAMBDA r : r.t = 5)
    IN IF Len(msg_5) > 0 THEN <<msg_5[1]>> ELSE <<>>

(***************************************************************************)
(* Scan grouper                                                            *)
(***************************************************************************)
Count(records, t) == Cardinality({i \in 1..Len(records) : records[i].t = t})

\* Variant: the type with the fewest records.
ChooseLeastMsgType(records) ==
    IF Count(records, 1) <= Count(records, 31) THEN 1 ELSE 31

\* line 254: max(msg_types_counts, key=msg_types_counts.get) over the keys
\* (1, 31): the first key with the largest count.
ChooseMsgType(records) ==
    IF Count(records, 1) >= Count(records, 31) THEN 1 ELSE 31

\* lines 255-261: the places (1-based) in records of the radial records.
RadialPlaces(records, msg_type) ==
    SelectSeq([i \in 1..Len(records) |-> i], LAMBDA i : records[i].t = msg_type)

\* Variant: range(elev_nums.min(), elev_nums.max()), without the largest
\* elevation number.
GroupScansBelowMax(radial_records) ==
    LET E  == {radial_records[i].e : i \in 1..Len(radial_records)}
        lo == CHOOSE x \in E : \A y \in E : x <= y
        hi == CHOOSE x \in E : \A y \in E : y <= x
    IN [k \in 1..(hi - lo) |->
           SelectSeq(Indices(Len(radial_records)), LAMBDA i : radial_records[i + 1].e = lo + k - 1)]

\* Variant: the elevation numbers taken from the largest down to the smallest.
GroupScansDescending(radial_records) ==
    LET E  == {radial_records[i].e : i \in 1..Len(radial_records)}
        lo == CHOOSE x \in E : \A y \in E : x <= y
        hi == CHOOSE x \in E : \A y \in E : y <= x
    IN [k \in 1..(hi - lo + 1) |->
           SelectSeq(Indices(Len(radial_records)), LAMBDA i : radial_records[i + 1].e = hi - k + 1)]

\* lines 266-271: for every elevation number from the smallest to the largest,
\* the 0-based indices in radial_records of its records, ascending.
GroupScans(radial_records) ==
    LET E  == {radial_records[i].e : i \in 1..Len(radial_records)}
        lo == MinOf(E)
        hi == CHOOSE x \in E : \A y \in E : y <= x
    IN [k \in 1..(hi - lo + 1) |->
           SelectSeq(Indices(Len(radial_records)), LAMBDA i : radial_records[i + 1].e = lo + k - 1)]

\* lines 273-275: any() over enumerate(azi_numbers); for i = 0 the index i-1
\* is -1, the last element.
WrongIndicesStep(radial_records) ==
    \E i \in 0..(Len(radial_records) - 1) :
        LET d == PyGet(radial_records, i).a - PyGet(radial_records, i - 1).a
        IN d > 0 /\ d # gzip_indices_step

\* lines 278-280: the condition under which a 'min-meta' decode re-decodes.
NeedsReopen(bz, counts1, counts31, radial_records, scan_msgs) ==
    \/ Min(counts1, counts31) > 0
    \/ ~bz /\ WrongIndicesStep(radial_records)
    \/ bz /\ ( \/ \E k \in 1..Len(scan_msgs) : Len(scan_msgs[k]) # 1
               \/ \E k \in 1..Len(scan_msgs) : PyGet(radial_records, scan_msgs[k][1]).ng0 )

\* line 288
DropEmpty(scan_msgs) == SelectSeq(scan_msgs, LAMBDA j : Len(j) > 0)

\* Variant: the index lists are left as they are.
WholeList(msgs) == msgs

\* line 299: the elements of msgs from which on msgs increases in steps of 1.
TrailingRun(msgs) ==
    LET n == Len(msgs)
        keep == {k \in 1..n : \A j \in k..(n - 1) : msgs[j + 1] - msgs[j] = 1}
    IN [j \in 1..Cardinality(keep) |-> msgs[n - Cardinality(keep) + j]]

(***************************************************************************)
(* Per-scan byte ranges, lines 304-325                                     *)
(***************************************************************************)
\* range(0, n, gzip_indices_step)
IndicesSelect(n) == [k \in 1..((n + gzip_indices_step - 1) \div gzip_indices_step) |-> (k - 1) * gzip_indices_step]

\* Variant: every range ends where it starts.
EndAtStart(i, scan_msgs, radial_records, radial_records_start_pos, bz, minmeta, bzip2_start_pos, indices) ==
    LET pos == PyGet(radial_records_start_pos, PyGet(scan_msgs, i)[1])
    IN [ok |-> TRUE, pair |-> <<pos, IF i + 1 < Len(scan_msgs) THEN pos ELSE None>>]

\* One pass of the loop for scan number i (0-based): [ok, pair]; ok is FALSE
\* when a list index is out of range (IndexError).
StartEndPos(i, scan_msgs, radial_records, radial_records_start_pos, bz, minmeta, bzip2_start_pos, indices) ==
    LET n      == Len(scan_msgs)
        at(j)  == PyGet(scan_msgs, IF 0 <= j /\ j < n THEN j ELSE i)[1]
        idx_m1 == at(i - 1)
        idx    == at(i)
        idx_p1 == at(i + 1)
        pos_m1 == PyGet(radial_records_start_pos, idx_m1)
        pos    == PyGet(radial_records_start_pos, idx)
        pos_p1 == PyGet(radial_records_start_pos, idx_p1)
        sel    == IndicesSelect(Len(indices))
        fail   == [ok |-> FALSE, pair |-> <<None, None>>]
    IN IF bz THEN
           IF minmeta THEN
               LET ks == IF idx # idx_m1 THEN pos_m1 + 1 ELSE 1
                   ke == pos + 1
               IN IF ~PyOk(bzip2_start_pos, ks) THEN fail
                  ELSE IF idx # idx_p1 /\ ~PyOk(bzip2_start_pos, ke) THEN fail
                  ELSE [ok |-> TRUE,
                        pair |-> <<PyGet(bzip2_start_pos, ks),
                                   IF idx # idx_p1 THEN PyGet(bzip2_start_pos, ke) ELSE None>>]
           ELSE
               IF ~PyOk(bzip2_start_pos, pos) THEN fail
               ELSE IF idx # idx_p1 /\ ~PyOk(bzip2_start_pos, pos_p1) THEN fail
               ELSE [ok |-> TRUE,
                     pair |-> <<PyGet(bzip2_start_pos, pos),
                                IF idx # idx_p1 THEN PyGet(bzip2_start_pos, pos_p1) ELSE None>>]
       ELSE
           IF minmeta THEN
               IF ~PyOk(sel, idx) THEN fail
               ELSE LET ks == Max(0, PyGet(sel, idx) - PyGet(radial_records, idx).a + 1)
                    IN IF ~PyOk(indices, ks) THEN fail
                       ELSE IF idx = idx_p1
                            THEN [ok |-> TRUE, pair |-> <<PyGet(indices, ks), None>>]
                       ELSE IF ~PyOk(sel, idx_p1) THEN fail
                       ELSE LET ke == PyGet(sel, idx_p1) - PyGet(radial_records, idx_p1).a + 1
                            IN IF ~PyOk(indices, ke) THEN fail
                               ELSE [ok |-> TRUE, pair |-> <<PyGet(indices, ks), PyGet(indices, ke)>>]
           ELSE [ok |-> TRUE, pair |-> <<pos, IF idx # idx_p1 THEN pos_p1 ELSE None>>]

(***************************************************************************)
(* decode_file                                                             *)
(***************************************************************************)
Mode(kind) == [kind |-> kind, ranges |-> <<>>]
RangeList(ranges) == [kind |-> "list", ranges |-> ranges]

\* The decoder's attributes before __init__ has run.
BlankSelf ==
    [decode_meta |-> FALSE, read_mode |-> Mode("none"), bzip2_compression |-> FALSE,
     records |-> <<>>, records_start_pos |-> <<>>, radial_records |-> <<>>,
     msg_type |-> 0, scan_msgs |-> <<>>, nscans |-> 0, scan_startend_pos |-> <<>>,
     has_vcp |-> FALSE, vcp |-> <<>>,
     bzip2_start_pos |-> <<>>, bzip2_read_indices |-> <<>>, indices |-> <<>>]

\* A decode in progress: the exception raised so far, the attributes, the
\* buffer cache, the state of the file handle, the buffers to parse, and
\* whether the 'min-meta' check asked for a re-decode.
Ctx(e, slf, c, closed, bufs) ==
    [err |-> e, self |-> slf, cache |-> c, fh_closed |-> closed, bufs |-> bufs, again |-> FALSE]

\* Variant: a closed handle is passed on as it is.
ReopenNever(bz, closed) == [err |-> "none", closed |-> closed]

\* lines 137-144: a closed handle is reopened for bzip2, refused for gzip.
Reopen(bz, closed) ==
    IF ~closed THEN [err |-> "none", closed |-> FALSE]
    ELSE IF bz THEN [err |-> "none", closed |-> FALSE]
    ELSE [err |-> "Exception:gzip closed", closed |-> TRUE]

\* lines 128-161.  by_handle: decode_file received self._fh (a __call__ or
\* the re-decode), not a file name.
OpenStep(f, slf, c, closed, read_mode, by_handle) ==
    LET s1 == [slf EXCEPT !.decode_meta = read_mode.kind \in {"all-meta", "min-meta"},
                          !.read_mode = read_mode]
    IN IF by_handle
       THEN LET r == Reopen(s1.bzip2_compression, closed)
            IN Ctx(r.err, s1, c, r.closed, <<>>)
       ELSE Ctx("none", [s1 EXCEPT !.bzip2_compression = f.bz],
                IF f.bz THEN {} ELSE 0, FALSE, <<>>)

\* lines 184-195: the stream indices a bzip2 'min-meta' decode reads; <<-1>>
\* stands for the IndexError of bzip2_read_indices[-1] on an empty list.
RECURSIVE ExpectedLast(_, _, _)
ExpectedLast(cuts, acc, n) ==
    IF cuts = <<>> THEN <<>>
    ELSE LET e == acc + StreamsPerCut(Head(cuts))
         IN (IF e < n THEN <<e>> ELSE <<>>) \o ExpectedLast(Tail(cuts), e, n)

\* Variant: only stream 0 and the last stream are read.
FirstAndLastIndices(vcp, n) == IF n > 1 THEN <<0, n - 1>> ELSE <<0>>

MinMetaIndices(vcp, n) ==
    LET first == IF vcp # <<>> THEN <<0>> \o ExpectedLast(vcp[1].cuts, 0, n)
                 ELSE [k \in 1..(n \div 3) |-> 2 + 3 * (k - 1)]
    IN IF first = <<>> THEN <<-1>>
       ELSE IF first[Len(first)] + 1 # n THEN Append(first, n - 1)
       ELSE first

\* lines 178-204: 'min-meta' on bzip2, r0 the records of stream 0: the VCP
\* message tells which streams to sample.
SampleStreams(f, cx, sp, r0) ==
    LET s2 == [cx.self EXCEPT !.bzip2_start_pos = sp,
                              !.records = r0.records, !.records_start_pos = r0.start_pos,
                              !.vcp = _get_vcp(r0.records), !.has_vcp = TRUE]
        ri == MinMetaIndices(_get_vcp(r0.records), Len(sp))
    IN IF ri = <<-1>> THEN [cx EXCEPT !.err = "IndexError", !.self = s2]
       ELSE [cx EXCEPT !.self = [s2 EXCEPT !.bzip2_read_indices = ri],
                       !.bufs = _decompress_records_meta(f, sp, ri, META_MAX_LENGTH)]

\* lines 164-204: bzip2 metadata modes, sp the filtered stream starts.
ReadBzMetaFrom(f, cx, read_mode, sp) ==
    IF read_mode.kind = "min-meta" THEN
        IF sp = <<>> THEN [cx EXCEPT !.err = "IndexError", !.self.bzip2_start_pos = sp]
        ELSE SampleStreams(f, cx, sp,
                 _read_records(f, sp, _decompress_records_meta(f, sp, <<0>>, META_MAX_LENGTH), TRUE, TRUE))
    ELSE [cx EXCEPT !.self = [cx.self EXCEPT !.bzip2_start_pos = sp,
                                             !.bzip2_read_indices = [k \in 1..Len(sp) |-> k - 1]],
                    !.bufs = _decompress_records_meta(f, sp, [k \in 1..Len(sp) |-> k - 1], META_MAX_LENGTH)]

ReadBzMeta(f, cx, read_mode) == ReadBzMetaFrom(f, cx, read_mode, FilteredStartPos(f))

\* lines 210-230: 'min-meta' on gzip, ind the positions of the type 1 and 31
\* records in the payload, n bytes of which are cached: the part before the
\* first radial record, then every 30th radial record.
SampleRays(f, cx, n, ind) ==
    LET sel == IndicesSelect(Len(ind))
    IN IF Len(ind) = 0 THEN [cx EXCEPT !.err = "IndexError", !.self.indices = ind]
       ELSE [cx EXCEPT !.self.indices = ind,
                       !.bufs = <<GzSlice(f, n, 0, ind[1])>>
                                \o [k \in 1..Len(sel) |->
                                      GzSlice(f, n, PyGet(ind, sel[k]),
                                              IF sel[k] + 1 < Len(ind) THEN PyGet(ind, sel[k] + 1) ELSE None)]]

\* The start positions of the type 1 and 31 records of a buffer (line 210).
RadialStarts(b) ==
    LET hit == SelectSeq(Walk(b.recs, 0, b.len), LAMBDA x : x.rec.t \in {1, 31})
    IN [k \in 1..Len(hit) |-> hit[k].pos]

\* lines 206-230: gzip metadata modes, r the payload read.
ReadGzMetaFrom(f, cx, read_mode, r) ==
    IF read_mode.kind = "min-meta"
    THEN SampleRays(f, [cx EXCEPT !.cache = r.cache], r.cache, RadialStarts(r.buf))
    ELSE [cx EXCEPT !.cache = r.cache, !.bufs = <<r.buf>>]

ReadGzMeta(f, cx, read_mode) == ReadGzMetaFrom(f, cx, read_mode, _read_gzip_all(f, cx.cache))

\* lines 232-233: read_mode 'all'.
ReadAll(f, cx) ==
    IF f.bz THEN
        LET key == <<0, None>>
            r   == _decompress_range(f, key)
        IN IF key \in cx.cache THEN [cx EXCEPT !.bufs = <<r.buf>>]
           ELSE IF cx.fh_closed THEN [cx EXCEPT !.err = "ValueError:closed file"]
           ELSE IF r.err # "none" THEN [cx EXCEPT !.err = r.err]
           ELSE [cx EXCEPT !.bufs = <<r.buf>>, !.cache = @ \cup {key}]
    ELSE LET r == _read_gzip_all(f, cx.cache)
         IN [cx EXCEPT !.bufs = <<r.buf>>, !.cache = r.cache]

\* Variant: the ranges are read in the order given.
UnsortedRanges(rs) == rs

\* line 239: sorted(read_mode) compares the pairs as lists.  Two pairs with
\* the same start and one end None make it compare None with an integer
\* (TypeError); the lists here have at most two pairs, which sorted always
\* compares.
SortFails(rs) ==
    \E i, j \in 1..Len(rs) :
        rs[i][1] = rs[j][1] /\ rs[i][2] = None /\ rs[j][2] # None

RECURSIVE SortRanges(_)
SortRanges(rs) ==
    IF rs = <<>> THEN <<>>
    ELSE LET m == CHOOSE k \in 1..Len(rs) :
                     \A j \in 1..Len(rs) :
                        \/ rs[k][1] < rs[j][1]
                        \/ rs[k][1] = rs[j][1] /\ (rs[k][2] <= rs[j][2])
         IN <<rs[m]>> \o SortRanges(SubSeq(rs, 1, m - 1) \o SubSeq(rs, m + 1, Len(rs)))

\* lines 240-242: buf += the buffer of each range, in the given order.
RECURSIVE ReadRanges(_, _, _)
ReadRanges(f, cx, rs) ==
    IF rs = <<>> \/ cx.err # "none" THEN cx
    ELSE LET one ==
                 IF f.bz THEN
                     LET r == _decompress_range(f, Head(rs))
                     IN IF Head(rs) \in cx.cache THEN [err |-> "none", cache |-> cx.cache, buf |-> r.buf]
                        ELSE IF cx.fh_closed THEN [err |-> "ValueError:closed file", cache |-> cx.cache, buf |-> EmptyBuf]
                        ELSE IF r.err # "none" THEN [err |-> r.err, cache |-> cx.cache, buf |-> EmptyBuf]
                        ELSE [err |-> "none", cache |-> cx.cache \cup {Head(rs)}, buf |-> r.buf]
                 ELSE LET r == _read_gzip(f, cx.cache, Head(rs))
                      IN [err |-> "none", cache |-> r.cache, buf |-> r.buf]
             acc == cx.bufs[1]
         IN ReadRanges(f,
                [cx EXCEPT !.err = one.err, !.cache = one.cache,
                           !.bufs = <<Buf(acc.recs \o one.buf.recs, acc.len + one.buf.len)>>],
                Tail(rs))

\* lines 164-242.
ReadStep(f, cx, read_mode) ==
    IF cx.err # "none" THEN cx
    ELSE IF cx.self.decode_meta THEN
        IF cx.self.bzip2_compression THEN ReadBzMeta(f, cx, read_mode) ELSE ReadGzMeta(f, cx, read_mode)
    ELSE IF read_mode.kind = "all" THEN ReadAll(f, cx)
    ELSE IF SortFails(read_mode.ranges) THEN [cx EXCEPT !.err = "TypeError"]
    ELSE ReadRanges(f, [cx EXCEPT !.bufs = <<EmptyBuf>>], SortRanges(read_mode.ranges))

\* lines 304-325, se the outcome of the loop for each scan: the ranges, or
\* those computed before the first IndexError.
StoreRanges(cx, s2, s3, se) ==
    LET bad == {k \in 1..Len(se) : ~se[k].ok}
    IN IF bad = {}
       THEN [cx EXCEPT !.self = [s3 EXCEPT !.scan_startend_pos = [k \in 1..Len(se) |-> se[k].pair]]]
       ELSE [cx EXCEPT !.err = "IndexError",
                       !.self = [s2 EXCEPT !.scan_startend_pos =
                                    [k \in 1..(MinOf(bad) - 1) |-> se[k].pair]]]

\* lines 286-329, once the decode is kept: s1 the attributes so far, groups
\* the scans as grouped, pos the radial_records_start_pos.
FinishScans(cx, read_mode, s1, groups, pos) ==
    LET scan_msgs == DropEmpty(groups)
        s2 == [s1 EXCEPT !.scan_msgs = scan_msgs, !.nscans = Len(scan_msgs)]
        s3 == IF s1.has_vcp THEN s2
              ELSE [s2 EXCEPT !.vcp = _get_vcp(s1.records), !.has_vcp = TRUE]
        repaired == [k \in 1..Len(scan_msgs) |-> TrailingRun(scan_msgs[k])]
    IN IF ~s1.decode_meta THEN [cx EXCEPT !.self = s3]
       ELSE StoreRanges(cx, s2, s3,
                [k \in 1..Len(repaired) |->
                    StartEndPos(k - 1, repaired, s1.radial_records, pos,
                                s1.bzip2_compression, read_mode.kind = "min-meta",
                                s1.bzip2_start_pos, s1.indices)])

\* lines 262-284: no radial record raises ValueError; a 'min-meta' decode
\* whose sample is not trusted asks for the re-decode.
CheckScans(cx, read_mode, s1, groups, pos) ==
    IF s1.radial_records = <<>> THEN [cx EXCEPT !.err = "ValueError:no radials", !.self = s1]
    ELSE IF /\ read_mode.kind = "min-meta"
            /\ NeedsReopen(s1.bzip2_compression, Count(s1.records, 1), Count(s1.records, 31),
                           s1.radial_records, groups)
    THEN [cx EXCEPT !.self = [s1 EXCEPT !.scan_msgs = groups], !.again = TRUE]
    ELSE FinishScans(cx, read_mode, s1, groups, pos)

\* lines 246-261, rr the parsed records, places the places of the records
\* of the chosen message type.
PickRadials(cx, read_mode, rr, places) ==
    LET radial_records == [k \in 1..Len(places) |-> rr.records[places[k]]]
    IN CheckScans(cx, read_mode,
           [cx.self EXCEPT !.records = rr.records, !.records_start_pos = rr.start_pos,
                           !.radial_records = radial_records,
                           !.msg_type = ChooseMsgType(rr.records)],
           IF radial_records = <<>> THEN <<>> ELSE GroupScans(radial_records),
           [k \in 1..Len(places) |->
               IF cx.self.decode_meta /\ cx.self.bzip2_compression
               THEN cx.self.bzip2_read_indices[places[k]]
               ELSE rr.start_pos[places[k]]])

GroupRecords(cx, read_mode, rr) ==
    PickRadials(cx, read_mode, rr, RadialPlaces(rr.records, ChooseMsgType(rr.records)))

\* lines 244-329: parse the buffers, pick the radial records, group them
\* into scans and, in metadata mode, compute the per-scan byte ranges.
GroupStep(f, cx, read_mode) ==
    IF cx.err # "none" THEN cx
    ELSE GroupRecords(cx, read_mode,
             _read_records(f, cx.self.bzip2_start_pos, cx.bufs,
                           cx.self.bzip2_compression, cx.self.decode_meta))

\* decode_file(file_name_or_obj, read_mode): the attributes, cache and handle
\* it leaves, the exception it raises, and whether it re-decoded (line 283).
DecodeOnce(f, slf, c, closed, read_mode, by_handle) ==
    GroupStep(f, ReadStep(f, OpenStep(f, slf, c, closed, read_mode, by_handle), read_mode), read_mode)

\* lines 281-284: the re-decode in read_mode 'all-meta' on the same handle.
Redecode(f, a) ==
    IF a.again
    THEN [DecodeOnce(f, a.self, a.cache, a.fh_closed, Mode("all-meta"), TRUE) EXCEPT !.again = TRUE]
    ELSE a

decode_file(f, slf, c, closed, read_mode, by_handle) ==
    Redecode(f, DecodeOnce(f, slf, c, closed, read_mode, by_handle))

(***************************************************************************)
(* The decoder as a state machine                                          *)
(***************************************************************************)
Install(r, read_mode, ok_pc) ==
    /\ self' = r.self
    /\ cache' = r.cache
    /\ fh_closed' = r.fh_closed
    /\ err' = r.err
    /\ reopened' = r.again
    /\ request' = read_mode
    /\ pc' = IF r.err = "none" THEN ok_pc ELSE "failed"
    /\ UNCHANGED <<file, result, unpack_vars>>

\* NEXRADLevel2File(filename, read_mode)
Construct(read_mode) ==
    /\ pc = "new"
    /\ Install(decode_file(file, BlankSelf, {}, FALSE, read_mode, FALSE), read_mode, "ready")
    /\ opens' = 1

\* The ranges a caller passes to __call__: one or two of the byte ranges the
\* metadata decode computed, in either order.
CallInputs ==
    LET se == self.scan_startend_pos
    IN {<<se[i]>> : i \in 1..Len(se)}
       \cup {<<se[p[1]], se[p[2]]>> : p \in {q \in (1..Len(se)) \X (1..Len(se)) : q[1] # q[2]}}

\* decoder(startend_pos)
Call(ranges) ==
    /\ pc = "ready"
    /\ Install(decode_file(file, self, cache, fh_closed, RangeList(ranges), TRUE), RangeList(ranges), "called")
    /\ opens' = IF fh_closed /\ ~fh_closed' THEN opens + 1 ELSE opens

\* close()
Close ==
    /\ pc = "ready"
    /\ ~fh_closed
    /\ fh_closed' = TRUE
    /\ UNCHANGED <<file, pc, err, opens, cache, self, request, reopened, result, unpack_vars>>

Init ==
    /\ file \in Files
    /\ pc = "new"
    /\ err = "none"
    /\ fh_closed = FALSE
    /\ opens = 0
    /\ cache = {}
    /\ self = BlankSelf
    /\ request = Mode("none")
    /\ reopened = FALSE
    /\ result = <<>>
    /\ s_before = <<>>
    /\ dic_before = <<>>
    /\ thread = <<>>

Next ==
    \/ \E m \in {"all", "all-meta", "min-meta"} : Construct(Mode(m))
    \/ \E rs \in CallInputs : Call(rs)
    \/ Close

Spec == Init /\ [][Next]_vars

(***************************************************************************)
(* Properties                                                              *)
(***************************************************************************)
\* The last decode returned without raising.
Decoded == pc \in {"ready", "called"}

\* C2: after every successful decode, in every read mode, every index of
\* radial_records occurs in exactly one scan of scan_msgs, and the lengths of
\* the scans add up to len(radial_records).
C2_ScanMsgsPartition ==
    Decoded =>
        /\ \A i \in 0..(Len(self.radial_records) - 1) :
              Cardinality({s \in 1..Len(self.scan_msgs) : i \in Range(self.scan_msgs[s])}) = 1
        /\ SumSeq([s \in 1..Len(self.scan_msgs) |-> Len(self.scan_msgs[s])]) = Len(self.radial_records)

\* A ranged read of two scans returned, with more records than scans.
C2_Witness ==
    /\ pc = "called"
    /\ Len(request.ranges) = 2
    /\ self.nscans >= 2
    /\ Len(self.radial_records) > self.nscans

\* C3: after every successful decode every scan of scan_msgs is non-empty,
\* its records carry one elevation number, its indices increase strictly, and
\* the scans are in increasing order of elevation number.
ElevationOfScan(s) == PyGet(self.radial_records, self.scan_msgs[s][1]).e

C3_ScansWellFormed ==
    Decoded =>
        /\ \A s \in 1..Len(self.scan_msgs) :
              /\ Len(self.scan_msgs[s]) >= 1
              /\ \A k \in 1..Len(self.scan_msgs[s]) :
                    PyGet(self.radial_records, self.scan_msgs[s][k]).e = ElevationOfScan(s)
              /\ \A k \in 1..(Len(self.scan_msgs[s]) - 1) :
                    self.scan_msgs[s][k] < self.scan_msgs[s][k + 1]
        /\ \A s \in 1..(Len(self.scan_msgs) - 1) : ElevationOfScan(s) < ElevationOfScan(s + 1)

\* A decode returned for a file in which an elevation number is missing
\* between two scans.
C3_Witness ==
    /\ Decoded
    /\ self.nscans >= 2
    /\ Len(self.scan_msgs[1]) >= 2
    /\ ElevationOfScan(2) > ElevationOfScan(1) + 1

\* The file holds at least one type-1 or type-31 message.
HasRadialRecord(f) ==
    \E k \in 1..Len(f.streams) : \E j \in 1..Len(f.streams[k].recs) : f.streams[k].recs[j].t \in {1, 31}

\* C4: in every read mode and for both containers, a decode of a file without
\* any type-1 or type-31 record raises the no-radials ValueError and no other
\* exception.
C4_NoRadialsFound ==
    (pc # "new" /\ ~HasRadialRecord(file)) => err = "ValueError:no radials"

\* C5: once the records are parsed, msg_type is 1 or 31, no other of the two
\* types has more records, and radial_records is the subsequence of records
\* of type msg_type, in record order.
C5_MsgTypeAndRadials ==
    (Decoded \/ err = "ValueError:no radials") =>
        /\ self.msg_type \in {1, 31}
        /\ \A t \in {1, 31} : Count(self.records, t) <= Count(self.records, self.msg_type)
        /\ self.radial_records = SelectSeq(self.records, LAMBDA r : r.t = self.msg_type)

\* A decode returned whose records hold both type-1 and type-31 records.
C5_Witness ==
    /\ Decoded
    /\ Count(self.records, 1) > 0
    /\ Count(self.records, 31) > Count(self.records, 1)

\* C10: a ranged __call__ on a decoder whose file was closed: for bzip2 the
\* file is opened again and the call ends as it does on a handle that was
\* never closed (same exception or none, same attributes); for gzip the call
\* raises before it reads or parses, and records, radial_records, scan_msgs
\* and the buffer stay as the earlier decode left them.
C10_ClosedHandle ==
    [][(pc = "ready" /\ fh_closed /\ pc' # "ready") =>
          IF file.bz
          THEN LET r == decode_file(file, self, cache, FALSE, request', TRUE)
               IN /\ ~fh_closed'
                  /\ opens' = opens + 1
                  /\ err' = r.err
                  /\ self' = r.self
                  /\ cache' = r.cache
          ELSE /\ pc' = "failed"
               /\ err' = "Exception:gzip closed"
               /\ fh_closed'
               /\ cache' = cache
               /\ self'.records = self.records
               /\ self'.radial_records = self.radial_records
               /\ self'.scan_msgs = self.scan_msgs]_vars

\* A ranged call returned scans of a bzip2 file that had been closed and was
\* opened a second time.
C10_Witness ==
    /\ file.bz
    /\ pc = "called"
    /\ opens = 2
    /\ self.nscans >= 1
    /\ Len(self.radial_records) >= 2

\* The orders in which a caller can pass the ranges rs.
Orders(rs) ==
    {[i \in 1..Len(rs) |-> rs[p[i]]] :
        p \in {q \in [1..Len(rs) -> 1..Len(rs)] : \A i, j \in 1..Len(rs) : q[i] = q[j] => i = j}}

IsPrefix(a, b) == Len(a) <= Len(b) /\ SubSeq(b, 1, Len(a)) = a

\* C9: a ranged __call__ ends the same way (exception, records,
\* radial_records with their gate arrays, scan_msgs) for every order of the
\* ranges in the list; the range with the smallest start is read first, and
\* the scans come out in ascending order of elevation number.
C9_RangeOrder ==
    [][(pc = "ready" /\ pc' # "ready") =>
          LET rs == request'.ranges
              lo == CHOOSE r \in Range(rs) : \A r2 \in Range(rs) : r[1] <= r2[1]
              first == decode_file(file, self, cache, fh_closed, RangeList(<<lo>>), TRUE)
          IN /\ \A rs2 \in Orders(rs) :
                   LET r == decode_file(file, self, cache, fh_closed, RangeList(rs2), TRUE)
                   IN /\ r.err = err'
                      /\ r.self.records = self'.records
                      /\ r.self.radial_records = self'.radial_records
                      /\ r.self.scan_msgs = self'.scan_msgs
             /\ (err' = "none" /\ first.err = "none" /\ first.self.records[1].t # 0)
                   => IsPrefix(first.self.records, self'.records)
             /\ err' = "none" =>
                   \A s \in 1..(Len(self'.scan_msgs) - 1) :
                      PyGet(self'.radial_records, self'.scan_msgs[s][1]).e
                         < PyGet(self'.radial_records, self'.scan_msgs[s + 1][1]).e]_vars

\* A ranged call that was given two ranges in descending order of start
\* returned two scans.
C9_Witness ==
    /\ pc = "called"
    /\ Len(request.ranges) = 2
    /\ request.ranges[1][1] > request.ranges[2][1]
    /\ self.nscans = 2
    /\ Len(self.scan_msgs[1]) >= 2

\* The validity checks of a 'min-meta' decode, stated on the sampled records.
OneMsgType == Count(self.records, 1) = 0 \/ Count(self.records, 31) = 0

OneSamplePerElevation ==
    LET E == {self.radial_records[i].e : i \in 1..Len(self.radial_records)}
    IN \A e \in MinOf(E)..(CHOOSE x \in E : \A y \in E : y <= x) :
          Cardinality({i \in 1..Len(self.radial_records) : self.radial_records[i].e = e}) = 1

NoEmptyMoment == \A i \in 1..Len(self.radial_records) : ~self.radial_records[i].ng0

StrideSteps ==
    \A i \in 1..(Len(self.radial_records) - 1) :
        LET d == self.radial_records[i + 1].a - self.radial_records[i].a
        IN d > 0 => d = gzip_indices_step

\* The decoder's state is the one a fresh 'all-meta' decode of the file gives.
SameAsAllMeta ==
    LET am == decode_file(file, BlankSelf, {}, FALSE, Mode("all-meta"), FALSE)
    IN /\ am.err = "none"
       /\ am.self.records = self.records
       /\ am.self.scan_msgs = self.scan_msgs
       /\ am.self.nscans = self.nscans
       /\ am.self.scan_startend_pos = self.scan_startend_pos

MinMetaReturned == pc = "ready" /\ request.kind = "min-meta"

\* C6 as stated: when a 'min-meta' decode returns, either (a) one message
\* type, (b) bzip2: one sampled message per elevation number, (c) no sampled
\* message with ngates == 0 and (d) gzip: no upward azimuth step other than 30
\* all hold of the sampled records, or the state is that of an 'all-meta'
\* decode.
C6_AsStated ==
    MinMetaReturned =>
        \/ /\ OneMsgType
           /\ file.bz => OneSamplePerElevation
           /\ NoEmptyMoment
           /\ ~file.bz => StrideSteps
        \/ SameAsAllMeta

\* get_vcp_pattern() for the value of self.vcp.
get_vcp_pattern(vcp) == IF vcp = <<>> THEN None ELSE vcp[1].pn

FreshDecode(mode) == decode_file(file, BlankSelf, {}, FALSE, Mode(mode), FALSE)

\* C1 as stated: for every file, a ranged __call__ with the range that an
\* 'all-meta' decode computed for scan s returns, and its radial records are
\* exactly the rays (with their gate arrays) that an 'all' decode of the file
\* puts in the scan of the same elevation number.
C1_RangedScanEqualsFull ==
    [][(pc = "ready" /\ request.kind = "all-meta" /\ pc' # "ready" /\ Len(request'.ranges) = 1) =>
          LET full == FreshDecode("all")
          IN full.err = "none" =>
                \A s \in 1..Len(self.scan_startend_pos) :
                   self.scan_startend_pos[s] = request'.ranges[1] =>
                      /\ err' = "none"
                      /\ self'.radial_records =
                            SelectSeq(full.self.radial_records,
                                      LAMBDA r : r.e = PyGet(self.radial_records, self.scan_msgs[s][1]).e)]_vars

\* The layout a bzip2 volume has according to its VCP: every stream can be
\* decompressed and is not undersized; stream 0 holds the metadata, led by
\* the type-5 message; the streams after it hold complete type-31 rays, cut j
\* of the VCP filling the next 3 (6 for super resolution) streams with rays
\* of elevation number j; the volume may end before the last cut does.
\* Without a type-5 message every scan fills 3 streams.
CutOfStream(cuts, idx) ==
    LET upto(j) == SumSeq([i \in 1..j |-> StreamsPerCut(cuts[i])])
        J == {j \in 1..Len(cuts) : upto(j - 1) < idx /\ idx <= upto(j)}
    IN IF J = {} THEN 0 ELSE CHOOSE j \in J : TRUE

LaidOutByVcp(f) ==
    /\ f.bz
    /\ Len(f.streams) >= 2
    /\ \A k \in 1..Len(f.streams) :
          f.streams[k].ok /\ f.streams[k].clen > MIN_STREAM_DIFF /\ f.streams[k].recs # <<>>
    /\ LET s0     == f.streams[1].recs
           hasvcp == \E j \in 1..Len(s0) : s0[j].t = 5
           meta0  == \A j \in 1..Len(s0) : s0[j].t \notin {1, 31}
           first  == IF meta0 THEN 2 ELSE 1
       IN /\ hasvcp => (meta0 /\ s0[1].t = 5)
          /\ \A k \in first..Len(f.streams) :
                LET idx == k - first + 1
                    cut == IF hasvcp THEN CutOfStream(s0[1].cuts, idx) ELSE (idx - 1) \div 3 + 1
                IN /\ cut >= 1
                   /\ \A j \in 1..Len(f.streams[k].recs) :
                         /\ f.streams[k].recs[j].t = 31
                         /\ f.streams[k].recs[j].rad
                         /\ f.streams[k].recs[j].e = cut

SameSummaryAsAllMeta ==
    LET am == FreshDecode("all-meta")
    IN /\ am.err = "none"
       /\ self.nscans = am.self.nscans
       /\ get_vcp_pattern(self.vcp) = get_vcp_pattern(am.self.vcp)
       /\ Len(self.scan_startend_pos) = Len(am.self.scan_startend_pos)

RaysOf(f) ==
    SelectSeq(Flatten([k \in 1..Len(f.streams) |-> f.streams[k].recs]), LAMBDA m : m.t \in {1, 31})

\* Elevation numbers never decrease along the file, and within each scan the
\* azimuth numbers count from 1.
RaysInOrder(f) ==
    LET rays == RaysOf(f)
    IN /\ rays # <<>>
       /\ rays[1].a = 1
       /\ \A i \in 1..(Len(rays) - 1) :
             \/ rays[i + 1].e = rays[i].e /\ rays[i + 1].a = rays[i].a + 1
             \/ rays[i + 1].e > rays[i].e /\ rays[i + 1].a = 1

RangesWellFormed ==
    LET se == self.scan_startend_pos
    IN /\ Len(se) = self.nscans
       /\ \A k \in 1..Len(se) : (se[k][2] = None) <=> (k = Len(se))
       /\ \A k \in 1..(Len(se) - 1) : se[k][1] < se[k][2]

MaxRays == 3

Block(ngates, word_size, data) ==
    [ngates |-> ngates, word_size |-> word_size, data |-> data, offset |-> 66, scale |-> 2]

\* The blocks a ray can carry under the tag REF: 8-bit and 16-bit data, data
\* that ends before ngates, and a word size that is neither 8 nor 16 (its
\* data is the empty list of line 880).
RefBlocks ==
    {Block(2, 8, <<0, 5>>), Block(2, 8, <<1, 2>>), Block(2, 16, <<257, 300>>),
     Block(3, 8, <<4>>), Block(2, 32, <<>>)}

NoMoments == [m \in {} |-> Block(0, 8, <<>>)]
Ray(t, mom) == [t |-> t, mom |-> mom]

\* The rays of a decoder of message type t: each without moment block or
\* with one REF block; a type-1 block is always read as 8-bit data.
RaysOfType(t) ==
    {Ray(t, NoMoments)}
    \cup {Ray(t, [m \in {"REF"} |-> b]) : b \in {x \in RefBlocks : t = 31 \/ x.word_size = 8}}

\* The decoders: up to MaxRays rays of one message type, in one scan or
\* split into two.
QueryDecoders ==
    UNION {UNION {{[BlankSelf EXCEPT !.msg_type = t, !.radial_records = rays,
                                     !.scan_msgs = IF k = Len(rays) THEN <<Indices(k)>>
                                                   ELSE <<Indices(k), [j \in 1..(Len(rays) - k) |-> k + j - 1]>>,
                                     !.nscans = IF k = Len(rays) THEN 1 ELSE 2]
                       : k \in 1..Len(rays)}
                  : rays \in SeqsUpTo(RaysOfType(t), MaxRays)}
           : t \in {1, 31}}

\* The scans argument: None, or a list of scan numbers.
AllScans == [none |-> TRUE, list |-> <<>>]
Scans(list) == [none |-> FALSE, list |-> list]

\* _bits_to_code: the element width in bits.  The data of a type-1 block is
\* always uint8 (lines 917, 928, 942).
_bits_to_code(msg, moment) ==
    IF msg.t = 1 THEN 8
    ELSE IF msg.mom[moment].word_size = 16 THEN 16
    ELSE 8

\* Variant: only the value 0 is masked.
MaskZero(v) == v < 1

\* line 737 and line 745: mask = data <= 1.
MaskOf(v) == v <= 1

\* lines 716-728: the array of raw values, ones where nothing is assigned;
\* an assignment casts to the element width of the array.
RawArray(slf, moment, max_ngates, msg_nums) ==
    LET has   == SelectSeq(msg_nums, LAMBDA n : moment \in DOMAIN PyGet(slf.radial_records, n).mom)
        width == IF has = <<>> THEN 8 ELSE _bits_to_code(PyGet(slf.radial_records, has[1]), moment)
    IN [i \in 1..Len(msg_nums) |->
          LET msg == PyGet(slf.radial_records, msg_nums[i])
          IN [g \in 1..max_ngates |->
                IF moment \notin DOMAIN msg.mom THEN 1
                ELSE IF g <= Min(Min(msg.mom[moment].ngates, max_ngates), Len(msg.mom[moment].data))
                     THEN msg.mom[moment].data[g] % (2 ^ width)
                     ELSE 1]]

\* lines 733-745: kind "scaled": (data - offset) / scale, masked where
\* data <= 1, with the offset and scale of the first requested scan whose
\* first ray carries the moment; kind "masked": the raw data masked where
\* data <= 1.
MaskedArray(slf, moment, scans, data) ==
    LET with == SelectSeq(scans, LAMBDA sc :
                    moment \in DOMAIN PyGet(slf.radial_records, PyGet(slf.scan_msgs, sc)[1]).mom)
    IN IF with = <<>>
       THEN [err |-> "none", kind |-> "masked", data |-> data, offset |-> 0, scale |-> 1]
       ELSE LET msg == PyGet(slf.radial_records, PyGet(slf.scan_msgs, with[1])[1])
            IN [err |-> "none", kind |-> "scaled", data |-> data,
                offset |-> msg.mom[moment].offset, scale |-> msg.mom[moment].scale]

\* _msg_nums(scans): np.concatenate of the scans' message numbers.
_msg_nums(slf, scans) == Flatten([k \in 1..Len(scans) |-> PyGet(slf.scan_msgs, scans[k])])

\* get_data(moment, max_ngates, scans, raw_data).  np.concatenate raises
\* ValueError on an empty list of scans.
get_data(slf, moment, max_ngates, scans, raw_data) ==
    LET sc == IF scans.none THEN Indices(slf.nscans) ELSE scans.list
    IN IF sc = <<>> THEN [err |-> "ValueError", kind |-> "none", data |-> <<>>, offset |-> 0, scale |-> 1]
       ELSE IF raw_data
       THEN [err |-> "none", kind |-> "raw",
             data |-> RawArray(slf, moment, max_ngates, _msg_nums(slf, sc)), offset |-> 0, scale |-> 1]
       ELSE MaskedArray(slf, moment, sc, RawArray(slf, moment, max_ngates, _msg_nums(slf, sc)))

\* The mask and the value of the returned array at ray i, gate g (1-based).
Masked(res, i, g) == res.kind # "raw" /\ MaskOf(res.data[i][g])
ValueAt(res, i, g) ==
    IF res.kind = "scaled"
    THEN [scaled |-> TRUE, num |-> res.data[i][g] - res.offset, den |-> res.scale]
    ELSE [scaled |-> FALSE, num |-> res.data[i][g], den |-> 1]

NoFile == [bz |-> FALSE, streams |-> <<>>]

\* A decoder that has decoded its file and is asked for moment data.
InitData ==
    /\ self \in QueryDecoders
    /\ file = NoFile
    /\ pc = "ready"
    /\ err = "none"
    /\ fh_closed = FALSE
    /\ opens = 1
    /\ cache = {}
    /\ request = Mode("none")
    /\ reopened = FALSE
    /\ result = <<>>
    /\ s_before = <<>>
    /\ dic_before = <<>>
    /\ thread = <<>>

ScanLists(n) == {<<>>, <<0>>, <<n - 1>>, <<n - 1, 0>>}

GetData(moment, max_ngates, scans, raw_data) ==
    /\ pc = "ready"
    /\ request' = [kind |-> "get_data", moment |-> moment, max_ngates |-> max_ngates,
                   scans |-> (IF scans.none THEN Indices(self.nscans) ELSE scans.list),
                   raw_data |-> raw_data]
    /\ result' = get_data(self, moment, max_ngates, scans, raw_data)
    /\ UNCHANGED <<file, pc, err, fh_closed, opens, cache, self, reopened, unpack_vars>>

NextData ==
    \E moment \in {"REF", "VEL"}, max_ngates \in 1..3, raw_data \in BOOLEAN,
       scans \in {AllScans} \cup {Scans(l) : l \in ScanLists(self.nscans)} :
        GetData(moment, max_ngates, scans, raw_data)

SpecData == InitData /\ [][NextData]_vars

\* A get_data call with raw_data false has returned an array.
MaskedReturned ==
    /\ request.kind = "get_data"
    /\ ~request.raw_data
    /\ result.err = "none"

\* The ray of row i of the returned array, and the raw value the file holds
\* for that ray at gate g: 1 where the ray has no value for the gate.
RowRay(i) == PyGet(self.radial_records, _msg_nums(self, request.scans)[i])
RawAt(i, g) ==
    IF request.moment \notin DOMAIN RowRay(i).mom THEN 1
    ELSE IF g <= Min(RowRay(i).mom[request.moment].ngates, Len(RowRay(i).mom[request.moment].data))
         THEN RowRay(i).mom[request.moment].data[g]
         ELSE 1

\* The element width of the array: that of the first requested ray with the moment.
WidthOfResult ==
    LET has == SelectSeq(_msg_nums(self, request.scans),
                         LAMBDA n : request.moment \in DOMAIN PyGet(self.radial_records, n).mom)
    IN IF has = <<>> THEN 8 ELSE _bits_to_code(PyGet(self.radial_records, has[1]), request.moment)

\* C11 as stated: with raw_data false a position is masked iff its raw value
\* is <= 1, and rows of rays without the moment and gates at or beyond the
\* gate count hold 1 and are masked.
C11_AsStated ==
    MaskedReturned =>
        \A i \in 1..Len(result.data) : \A g \in 1..request.max_ngates :
            /\ Masked(result, i, g) <=> RawAt(i, g) <= 1
            /\ (request.moment \notin DOMAIN RowRay(i).mom
                 \/ g > RowRay(i).mom[request.moment].ngates) => result.data[i][g] = 1

\* C11, amended: the same for every raw value that fits the element width of
\* the array (8 bits unless the first requested ray carrying the moment has
\* word_size 16).
C11_MaskIffAtMostOne ==
    MaskedReturned =>
        \A i \in 1..Len(result.data) : \A g \in 1..request.max_ngates :
            /\ RawAt(i, g) < 2 ^ WidthOfResult =>
                  (Masked(result, i, g) <=> RawAt(i, g) <= 1)
            /\ (request.moment \notin DOMAIN RowRay(i).mom
                 \/ g > RowRay(i).mom[request.moment].ngates) =>
                  (result.data[i][g] = 1 /\ Masked(result, i, g))

\* get_data returned an array with a masked 0, a masked 1, an unmasked value,
\* and a row of a ray without the moment.
C11_Witness ==
    /\ MaskedReturned
    /\ \E i \in 1..Len(result.data) : request.moment \notin DOMAIN RowRay(i).mom
    /\ \E i \in 1..Len(result.data) : \E g \in 1..request.max_ngates :
          RawAt(i, g) = 0 /\ Masked(result, i, g)
    /\ \E i \in 1..Len(result.data) : \E g \in 1..request.max_ngates :
          RawAt(i, g) > 1 /\ ~Masked(result, i, g)

\* Every position of the returned array is masked.
FullyMasked ==
    \A i \in 1..Len(result.data) : \A g \in 1..request.max_ngates : Masked(result, i, g)

\* No ray of the requested scans carries the requested moment.
MomentAbsent ==
    \A i \in 1..Len(result.data) : request.moment \notin DOMAIN RowRay(i).mom

\* Every unmasked value is (stored value - offset) / scale of its ray's block.
UnmaskedAreScaled ==
    \A i \in 1..Len(result.data) : \A g \in 1..request.max_ngates :
        ~Masked(result, i, g) =>
            /\ request.moment \in DOMAIN RowRay(i).mom
            /\ ValueAt(result, i, g) =
                  [scaled |-> TRUE,
                   num |-> result.data[i][g] - RowRay(i).mom[request.moment].offset,
                   den |-> RowRay(i).mom[request.moment].scale]

\* The second half of C12 alone: when a requested ray carries the moment,
\* the unmasked values are scaled.
ScaledWhenPresent == (MaskedReturned /\ ~MomentAbsent) => UnmaskedAreScaled

\* C12 as stated: with raw_data false the array is fully masked exactly when
\* the moment is absent from every ray of every requested scan, and when a
\* requested ray carries the moment every unmasked value is the scaled value,
\* never the raw integer.
C12_AsStated ==
    MaskedReturned =>
        /\ FullyMasked <=> MomentAbsent
        /\ ~MomentAbsent => UnmaskedAreScaled

(***************************************************************************)
(* Record decoding: _get_record_from_buf and the message decoders          *)
(*                                                                         *)
(* A message on the wire is its header's type and the content the decoder  *)
(* reads; avail is the number of bytes the buffer holds from the start of  *)
(* the message on.  Unpacking a structure of n bytes at an offset succeeds *)
(* when the buffer holds all n bytes and raises struct.error otherwise.    *)
(* A decoded dictionary is a function whose DOMAIN is its set of keys.     *)
(***************************************************************************)
MSG_31_SIZE == 72
MSG_1_SIZE == 100
MSG_5_SIZE == 22
MSG_5_ELEV_SIZE == 46
GENERIC_DATA_BLOCK_SIZE == 28
VOLUME_DATA_BLOCK_SIZE == 44
ELEVATION_DATA_BLOCK_SIZE == 12
RADIAL_DATA_BLOCK_SIZE == 20

MaxBlocks == 3

MomentNames == {"REF", "VEL", "SW", "ZDR", "PHI", "RHO", "CFP"}
ConstantNames == {"VOL", "ELV", "RAD"}

\* A data block of a type-31 message: its name, and for a moment block the
\* gate count, the word size and the data bytes that follow its descriptor.
WireBlock(name, ngates, word_size, bytes) ==
    [name |-> name, ngates |-> ngates, word_size |-> word_size, bytes |-> bytes]

WireBlocks ==
    {WireBlock(n, 0, 0, <<>>) : n \in ConstantNames \cup {"XYZ"}}
    \cup {WireBlock("REF", 2, 8, <<0, 5>>), WireBlock("VEL", 2, 16, <<1, 1, 1, 44>>),
          WireBlock("SW", 2, 32, <<0, 0, 0, 7, 0, 0, 0, 9>>), WireBlock("ZDR", 4, 8, <<3, 4, 5, 6>>)}

\* The bytes a block takes in the message.
BlockLen(b) ==
    IF b.name = "VOL" THEN VOLUME_DATA_BLOCK_SIZE
    ELSE IF b.name = "ELV" THEN ELEVATION_DATA_BLOCK_SIZE
    ELSE IF b.name = "RAD" THEN RADIAL_DATA_BLOCK_SIZE
    ELSE IF b.name \in MomentNames THEN GENERIC_DATA_BLOCK_SIZE + Len(b.bytes)
    ELSE 4

\* block_pointer_k of the MSG_31 header: the blocks follow the header one
\* after the other.
BlockPointer(blocks, k) == MSG_31_SIZE + SumSeq([j \in 1..(k - 1) |-> BlockLen(blocks[j])])

\* The length of the message after its MSG_HEADER: header "size" * 2 - 4.
Msg31Size(blocks) == BlockPointer(blocks, Len(blocks) + 1)

\* buf[ptr + 1 : ptr + 4].decode("ascii").strip() when only n of the three
\* bytes of the name lie in the buffer.
NameRead(name, n) ==
    IF n >= 3 THEN name
    ELSE IF n <= 0 THEN ""
    ELSE IF name = "SW" THEN (IF n = 2 THEN "SW" ELSE "S")
    ELSE IF name = "VOL" THEN (IF n = 2 THEN "VO" ELSE "V")
    ELSE IF name = "ELV" THEN (IF n = 2 THEN "EL" ELSE "E")
    ELSE IF name = "RAD" THEN (IF n = 2 THEN "RA" ELSE "R")
    ELSE IF name = "REF" THEN (IF n = 2 THEN "RE" ELSE "R")
    ELSE IF name = "VEL" THEN (IF n = 2 THEN "VE" ELSE "V")
    ELSE IF name = "ZDR" THEN (IF n = 2 THEN "ZD" ELSE "Z")
    ELSE (IF n = 2 THEN "XY" ELSE "X")

\* An entry of a decoded dictionary.  kind "dict": an unpacked structure;
\* kind "moment": a moment block with its data; kind "empty": {}.
Entry(kind, ngates, word_size, data, scale) ==
    [kind |-> kind, ngates |-> ngates, word_size |-> word_size, data |-> data, scale |-> scale]
EmptyDict == Entry("empty", 0, 0, <<>>, 0)
Unpacked == Entry("dict", 0, 0, <<>>, 0)

\* What a decoding step hands back: an exception, or a key and its entry.
Raised(e) == [err |-> e, key |-> "", val |-> EmptyDict]
Attached(key, val) == [err |-> "none", key |-> key, val |-> val]

\* np.frombuffer(buf[ptr2 : ptr2 + ngates], ">u1") with n bytes in the buffer.
FromBuffer8(bytes, ngates, n) == SubSeq(bytes, 1, Min(ngates, Max(n, 0)))

\* np.frombuffer(buf[ptr2 : ptr2 + ngates * 2], ">u2"): big-endian pairs.
FromBuffer16(bytes, ngates, n) ==
    [i \in 1..(Min(ngates * 2, Max(n, 0)) \div 2) |-> bytes[2 * i - 1] * 256 + bytes[2 * i]]

\* line 875: return 'None', {}.
Filtered(b) == Attached("None", EmptyDict)

\* lines 876-890, the moment block at ptr of a buffer of mlen bytes.
MomentBlock(b, ptr, mlen) ==
    IF ptr + GENERIC_DATA_BLOCK_SIZE > mlen THEN Raised("struct.error")
    ELSE IF b.word_size = 16
    THEN IF Min(b.ngates * 2, mlen - ptr - GENERIC_DATA_BLOCK_SIZE) % 2 = 1 THEN Raised("ValueError")
         ELSE Attached(b.name, Entry("moment", b.ngates, 16,
                  FromBuffer16(b.bytes, b.ngates, mlen - ptr - GENERIC_DATA_BLOCK_SIZE), 2))
    ELSE IF b.word_size = 8
    THEN Attached(b.name, Entry("moment", b.ngates, 8,
                  FromBuffer8(b.bytes, b.ngates, mlen - ptr - GENERIC_DATA_BLOCK_SIZE), 2))
    ELSE Attached(b.name, Entry("moment", b.ngates, b.word_size, <<>>, 2))

\* The structure of a VOL, ELV or RAD block.
ConstantBlock(b, ptr, mlen) ==
    IF ptr + BlockLen(b) > mlen THEN Raised("struct.error") ELSE Attached(b.name, Unpacked)

\* _get_msg31_data_block(buf, ptr, moments) for block b at ptr; name is the
\* block name as read from the buffer.
DataBlockNamed(b, name, ptr, mlen, moments) ==
    IF name \in ConstantNames THEN ConstantBlock(b, ptr, mlen)
    ELSE IF name \in MomentNames
    THEN IF moments # {} /\ name \notin moments THEN Filtered(b)
         ELSE MomentBlock(b, ptr, mlen)
    ELSE Attached(name, EmptyDict)

_get_msg31_data_block(b, ptr, mlen, moments) ==
    DataBlockNamed(b, NameRead(b.name, mlen - ptr - 1), ptr, mlen, moments)

\* A decoded record: err, and dic, the dictionary.
Record(e, dic) == [err |-> e, dic |-> dic]
\* dic["header"], of which the model keeps the type.
Header(t) == [Unpacked EXCEPT !.data = <<t>>]
HeaderOnly(t) == [k \in {"header"} |-> Header(t)]

\* The last block stored under key x.
LastWith(parts, x) ==
    CHOOSE k \in 1..Len(parts) : parts[k].key = x /\ \A j \in (k + 1)..Len(parts) : parts[j].key # x

\* lines 854-859 over the results of the blocks: the first exception
\* propagates; otherwise every block's entry is stored under its key, a later
\* block replacing an earlier one of the same key, then msg_header is set.
Attach31(parts) ==
    IF \E k \in 1..Len(parts) : parts[k].err # "none"
    THEN Record(parts[MinOf({k \in 1..Len(parts) : parts[k].err # "none"})].err, HeaderOnly(31))
    ELSE Record("none",
           [x \in ({"header", "msg_header"} \cup {parts[k].key : k \in 1..Len(parts)}) |->
               IF x = "header" THEN Header(31)
               ELSE IF x = "msg_header" THEN Unpacked
               ELSE parts[LastWith(parts, x)].val])

\* _get_msg31_from_buf: mbuf = buf[pos + 16 : new_pos], of which the buffer
\* holds mlen bytes; every block pointer of the header is positive.
Msg31From(blocks, mlen, moments) ==
    IF mlen < MSG_31_SIZE THEN Record("struct.error", HeaderOnly(31))
    ELSE Attach31([k \in 1..Len(blocks) |->
                     _get_msg31_data_block(blocks[k], BlockPointer(blocks, k), mlen, moments)])

_get_msg31_from_buf(msg, avail, moments) ==
    Msg31From(msg.blocks, Min(Msg31Size(msg.blocks), avail - MSG_HEADER_SIZE), moments)

\* A type-1 message: which of sur_pointer, vel_pointer and width_pointer are
\* nonzero, the bin counts, doppler_resolution, and the data of each moment.
Wire1(sur, vel, width, res) ==
    [t |-> 1, sur |-> sur, vel |-> vel, width |-> width, doppler_resolution |-> res,
     sur_nbins |-> 2, doppler_nbins |-> 2,
     sur_data |-> <<0, 5>>, vel_data |-> <<2, 3>>, width_data |-> <<4, 9>>]

\* The pointers, relative to the end of the message header.
sur_pointer(msg) == IF msg.sur THEN MSG_1_SIZE ELSE 0
vel_pointer(msg) == IF msg.vel THEN MSG_1_SIZE + msg.sur_nbins ELSE 0
width_pointer(msg) == IF msg.width THEN MSG_1_SIZE + msg.sur_nbins + msg.doppler_nbins ELSE 0

\* lines 913, 924, 938: the moments a type-1 record gets.  The condition of
\* the SW block tests 'REF'.
Msg1Keys(msg, moments) ==
    {m \in {"REF"} : sur_pointer(msg) # 0 /\ (moments = {} \/ "REF" \in moments)}
    \cup {m \in {"VEL"} : vel_pointer(msg) # 0 /\ (moments = {} \/ "VEL" \in moments)}
    \cup {m \in {"SW"} : width_pointer(msg) # 0 /\ (moments = {} \/ "REF" \in moments)}

\* The block dictionaries of lines 916-923, 927-937 and 941-948.
Msg1Block(msg, m, avail) ==
    IF m = "REF"
    THEN Entry("moment", msg.sur_nbins, 8,
               FromBuffer8(msg.sur_data, msg.sur_nbins, avail - MSG_HEADER_SIZE - sur_pointer(msg)), 2)
    ELSE IF m = "VEL"
    THEN Entry("moment", msg.doppler_nbins, 8,
               FromBuffer8(msg.vel_data, msg.doppler_nbins, avail - MSG_HEADER_SIZE - vel_pointer(msg)),
               IF msg.doppler_resolution = 4 THEN 1 ELSE 2)
    ELSE Entry("moment", msg.doppler_nbins, 8,
               FromBuffer8(msg.width_data, msg.doppler_nbins, avail - MSG_HEADER_SIZE - width_pointer(msg)), 2)

_get_msg1_from_buf(msg, avail, moments) ==
    IF avail - MSG_HEADER_SIZE < MSG_1_SIZE THEN Record("struct.error", HeaderOnly(1))
    ELSE Record("none",
           [x \in {"header", "msg_header"} \cup Msg1Keys(msg, moments) |->
               IF x = "header" THEN Header(1)
               ELSE IF x = "msg_header" THEN Unpacked
               ELSE Msg1Block(msg, x, avail)])

\* A type-5 message: pattern_number, and the elevation angles of its
\* num_cuts cuts.
Wire5(pattern_number, angles) == [t |-> 5, pattern_number |-> pattern_number, angles |-> angles]

\* dic["msg5_header"], of which the model keeps pattern_number and num_cuts,
\* and dic["cut_parameters"], of which it keeps the elevation angles.
Msg5Header(msg) == [Unpacked EXCEPT !.data = <<msg.pattern_number, Len(msg.angles)>>]
CutParameters(angles) == Entry("list", 0, 0, angles, 0)

\* The cuts _get_msg5_from_buf unpacks before the buffer ends.
CutsRead(msg, avail) ==
    Min(Len(msg.angles), Max(0, (avail - MSG_HEADER_SIZE - MSG_5_SIZE) \div MSG_5_ELEV_SIZE))

\* _get_msg5_from_buf: struct.error leaves dic as filled so far.
_get_msg5_from_buf(msg, avail) ==
    IF avail - MSG_HEADER_SIZE < MSG_5_SIZE THEN Record("struct.error", HeaderOnly(5))
    ELSE Record(IF CutsRead(msg, avail) < Len(msg.angles) THEN "struct.error" ELSE "none",
           [x \in {"header", "msg5_header", "cut_parameters"} |->
               IF x = "header" THEN Header(5)
               ELSE IF x = "msg5_header" THEN Msg5Header(msg)
               ELSE CutParameters(SubSeq(msg.angles, 1, CutsRead(msg, avail)))])

\* lines 820-826: struct.error of the type-5 decoder is caught and the
\* dictionary is returned as it is.
CatchStructError(rec) == Record("none", rec.dic)

\* A message of a type the decoder does not parse.
WireOther(t) == [t |-> t]

\* _get_record_from_buf(buf, pos, moments): the dictionary, or the exception
\* that leaves the function.  Line 831 calls _get_msg1_from_buf without
\* moments.
_get_record_from_buf(msg, avail, moments) ==
    IF avail < MSG_HEADER_SIZE THEN Record("struct.error", HeaderOnly(msg.t))
    ELSE IF msg.t = 31 THEN _get_msg31_from_buf(msg, avail, moments)
    ELSE IF msg.t = 5
    THEN (IF _get_msg5_from_buf(msg, avail).err = "struct.error"
          THEN CatchStructError(_get_msg5_from_buf(msg, avail))
          ELSE _get_msg5_from_buf(msg, avail))
    ELSE IF msg.t = 1 THEN _get_msg1_from_buf(msg, avail, {})
    ELSE Record("none", HeaderOnly(msg.t))

\* _get_vcp on decoded dictionaries: records of [t, dic].
Decoded1(rec) == [t |-> rec.dic["header"].data[1], dic |-> rec.dic]

\* What a query hands back: an exception, or a value.
Returned(op, e, val) == [op |-> op, err |-> e, val |-> val]

\* get_vcp_pattern on the dictionary self.vcp: self.vcp["msg5_header"]["pattern_number"].
VcpPatternOf(vcp) ==
    IF vcp = <<>> THEN Returned("get_vcp_pattern", "none", None)
    ELSE IF "msg5_header" \notin DOMAIN vcp[1].dic THEN Returned("get_vcp_pattern", "KeyError", None)
    ELSE Returned("get_vcp_pattern", "none", vcp[1].dic["msg5_header"].data[1])

\* get_target_angles(scans=None) of a type-31 volume, in units of 360/65536
\* degrees: lines 628-636.
get_target_angles(slf) ==
    IF slf.vcp # <<>> /\ "cut_parameters" \notin DOMAIN slf.vcp[1].dic
    THEN Returned("get_target_angles", "KeyError", <<>>)
    ELSE IF slf.vcp # <<>> /\ slf.nscans <= Len(slf.vcp[1].dic["cut_parameters"].data)
    THEN Returned("get_target_angles", "none",
                  [i \in 1..slf.nscans |-> slf.vcp[1].dic["cut_parameters"].data[i]])
    ELSE Returned("get_target_angles", "none", [i \in 1..slf.nscans |-> 0])

Wire31(blocks) == [t |-> 31, blocks |-> blocks]

WireMsgs ==
    {Wire31(b) : b \in SeqsUpTo(WireBlocks, MaxBlocks)}
    \cup {Wire1(s, v, w, r) : s \in BOOLEAN, v \in BOOLEAN, w \in BOOLEAN, r \in {2, 4}}
    \cup {Wire5(212, a) : a \in {<<>>, <<91>>, <<91, 182>>}}
    \cup {WireOther(2)}

\* The length of a whole message.
FullLen(msg) == IF msg.t = 31 THEN MSG_HEADER_SIZE + Msg31Size(msg.blocks) ELSE RECORD_SIZE

\* The bytes the buffer holds of a message: all of it, or the buffer ends
\* inside it (a file cut short, or the max_length of a metadata read).
Avails(msg) ==
    IF msg.t = 31 THEN {FullLen(msg) - d : d \in {0, 1, 2, 3, 10, 30}}
    ELSE IF msg.t = 1 THEN {RECORD_SIZE, MSG_HEADER_SIZE + MSG_1_SIZE + 3, MSG_HEADER_SIZE + MSG_1_SIZE, 60}
    ELSE IF msg.t = 5
    THEN {RECORD_SIZE, 10, 30} \cup
         {MSG_HEADER_SIZE + MSG_5_SIZE + k * MSG_5_ELEV_SIZE + r : k \in 0..1, r \in {0, 4}}
    ELSE {RECORD_SIZE, 10}

\* The moment filters: none, or a list of moment names.
Filters == {{}, {"REF"}, {"VEL"}, {"SW"}, {"REF", "VEL"}, {"SW", "ZDR"}}

MsgInputs ==
    UNION {{[kind |-> "decode", msg |-> m, avail |-> a, moments |-> f] : a \in Avails(m), f \in Filters}
           : m \in WireMsgs}

\* A buffer positioned at a message, and the moment filter of the decoder.
InitMsg ==
    /\ request \in MsgInputs
    /\ pc = "buffer"
    /\ self = BlankSelf
    /\ file = NoFile
    /\ err = "none"
    /\ fh_closed = FALSE
    /\ opens = 1
    /\ cache = {}
    /\ reopened = FALSE
    /\ result = <<>>
    /\ s_before = <<>>
    /\ dic_before = <<>>
    /\ thread = <<>>

\* _read_records decodes the message at the cursor.
DecodeRecord ==
    /\ pc = "buffer"
    /\ result' = _get_record_from_buf(request.msg, request.avail, request.moments)
    /\ err' = result'.err
    /\ pc' = IF result'.err = "none" THEN "record" ELSE "raised"
    /\ UNCHANGED <<file, fh_closed, opens, cache, self, request, reopened, unpack_vars>>

\* The module-level decoder of a type-1 message, called with the filter.
DecodeMsg1 ==
    /\ pc = "buffer"
    /\ request.msg.t = 1
    /\ request.avail >= MSG_HEADER_SIZE
    /\ result' = _get_msg1_from_buf(request.msg, request.avail, request.moments)
    /\ err' = result'.err
    /\ pc' = IF result'.err = "none" THEN "msg1" ELSE "raised"
    /\ UNCHANGED <<file, fh_closed, opens, cache, self, request, reopened, unpack_vars>>

\* The decode goes on to _get_vcp, for a volume of nscans scans of type-31 rays.
GetVcp(nscans) ==
    /\ pc = "record"
    /\ self' = [self EXCEPT !.records = <<Decoded1(result)>>,
                            !.vcp = _get_vcp(<<Decoded1(result)>>),
                            !.msg_type = 31, !.nscans = nscans]
    /\ pc' = "decoder"
    /\ UNCHANGED <<file, err, fh_closed, opens, cache, request, reopened, result, unpack_vars>>

QueryVcpPattern ==
    /\ pc \in {"decoder", "queried"}
    /\ result' = VcpPatternOf(self.vcp)
    /\ pc' = "queried"
    /\ UNCHANGED <<file, err, fh_closed, opens, cache, self, request, reopened, unpack_vars>>

QueryTargetAngles ==
    /\ pc \in {"decoder", "queried"}
    /\ result' = get_target_angles(self)
    /\ pc' = "queried"
    /\ UNCHANGED <<file, err, fh_closed, opens, cache, self, request, reopened, unpack_vars>>

NextMsg ==
    \/ DecodeRecord
    \/ DecodeMsg1
    \/ \E n \in 1..MaxScans : GetVcp(n)
    \/ QueryVcpPattern
    \/ QueryTargetAngles

SpecMsg == InitMsg /\ [][NextMsg]_vars

\* The blocks of the message whose names the decoder has read whole.
BlockNames(msg) == {msg.blocks[k].name : k \in 1..Len(msg.blocks)}

\* A whole type-31 message was decoded under a moment filter.
Filtered31 ==
    /\ pc = "record"
    /\ request.msg.t = 31
    /\ request.avail = FullLen(request.msg)
    /\ request.moments # {}

\* C13 as stated: under a moment filter a moment block is attached under its
\* tag only if the tag is in the filter, a filtered-out block adds no entry
\* (the keys are header, msg_header and the tags of the decoded blocks), and
\* VOL, ELV and RAD blocks are never filtered.
C13_AsStated ==
    Filtered31 =>
        /\ \A t \in MomentNames \cap DOMAIN result.dic : t \in request.moments
        /\ DOMAIN result.dic =
              {"header", "msg_header"}
              \cup {t \in BlockNames(request.msg) : t \in MomentNames => t \in request.moments}
        /\ \A t \in ConstantNames \cap BlockNames(request.msg) : t \in DOMAIN result.dic

\* A type-1 message was decoded under a moment filter, by the decoder
\* (pc "record") or by a direct call of _get_msg1_from_buf (pc "msg1").
Filtered1 ==
    /\ pc \in {"record", "msg1"}
    /\ request.msg.t = 1
    /\ request.moments # {}

\* C14 as stated: under a moment filter a decoded type-1 record carries REF,
\* VEL or SW iff the corresponding pointer is nonzero and that moment is in
\* the filter.
C14_AsStated ==
    Filtered1 =>
        /\ "REF" \in DOMAIN result.dic <=> (sur_pointer(request.msg) # 0 /\ "REF" \in request.moments)
        /\ "VEL" \in DOMAIN result.dic <=> (vel_pointer(request.msg) # 0 /\ "VEL" \in request.moments)
        /\ "SW" \in DOMAIN result.dic <=> (width_pointer(request.msg) # 0 /\ "SW" \in request.moments)

\* C14 for the direct call alone: _get_msg1_from_buf with the filter.
Msg1FilterByName == pc = "msg1" => C14_AsStated

\* C14 for the decoder's path alone: _get_record_from_buf with the filter.
RecordFilterByName == pc = "record" => C14_AsStated

\* The buffer ends inside the type-5 message: its unpacking raises struct.error.
IncompleteMsg5 ==
    /\ request.msg.t = 5
    /\ request.avail >= MSG_HEADER_SIZE
    /\ _get_msg5_from_buf(request.msg, request.avail).err = "struct.error"

\* After an incomplete type-5 message the decoder's vcp is empty.
VcpEmptyAfterIncomplete ==
    (IncompleteMsg5 /\ pc \in {"decoder", "queried"}) => self.vcp = <<>>

\* C16 as stated: when the unpacking of a type-5 message is truncated,
\* decoding continues, the decoder's vcp is empty afterwards,
\* get_vcp_pattern() returns None and the target angles are 0.0.
C16_AsStated ==
    IncompleteMsg5 =>
        /\ pc # "raised"
        /\ pc \in {"decoder", "queried"} => self.vcp = <<>>
        /\ (pc = "queried" /\ result.op = "get_vcp_pattern") =>
              (result.err = "none" /\ result.val = None)
        /\ (pc = "queried" /\ result.op = "get_target_angles") =>
              (result.err = "none" /\ \A i \in 1..Len(result.val) : result.val[i] = 0)

\* The data bytes of the block of the message that was stored under tag t.
PayloadOf(msg, t) ==
    IF msg.t = 31
    THEN msg.blocks[CHOOSE k \in 1..Len(msg.blocks) :
                       /\ msg.blocks[k].name = t
                       /\ \A j \in (k + 1)..Len(msg.blocks) : msg.blocks[j].name # t].bytes
    ELSE IF t = "REF" THEN msg.sur_data
    ELSE IF t = "VEL" THEN msg.vel_data
    ELSE msg.width_data

\* C17 as stated: every moment block of a decoded record has len(data) ==
\* ngates and word_size 8 or 16, also when the buffer holds only a prefix of
\* the stream; a block of another word size is decoded as 8-bit data of
\* ngates elements.
C17_AsStated ==
    pc \in {"record", "msg1"} =>
        \A t \in DOMAIN result.dic :
            result.dic[t].kind = "moment" =>
                /\ Len(result.dic[t].data) = result.dic[t].ngates
                /\ result.dic[t].word_size \notin {8, 16} =>
                      result.dic[t].data = SubSeq(PayloadOf(request.msg, t), 1, result.dic[t].ngates)

\* C17 on whole messages alone.
WholeMessageLengths == request.avail = FullLen(request.msg) => C17_AsStated

\* C17 on the supported word sizes alone.
SupportedWordSizeLengths ==
    pc \in {"record", "msg1"} =>
        \A t \in DOMAIN result.dic :
            (result.dic[t].kind = "moment" /\ result.dic[t].word_size \in {8, 16}) =>
                Len(result.dic[t].data) = result.dic[t].ngates

(***************************************************************************)
(* The structure codec under two threads: _unpack_from_buf                 *)
(*                                                                         *)
(* s_before and dic_before are module globals, shared by every decoder of  *)
(* the process.  Each thread decodes with its own decoder and so calls     *)
(* _unpack_from_buf on its own byte slices; the interpreter may switch     *)
(* threads between any two reads or writes of the globals.                 *)
(***************************************************************************)
MaxCalls == 2

Threads == {1, 2}
StructNames == {"MSG_HEADER", "MSG_31"}

\* The byte slices s = buf[pos : pos + size] the threads come across.
Slices == {<<1, 31>>, <<2, 31>>, <<1, 5>>}

\* _structure_content, two fields of each structure.
StructFields(structure_name) ==
    IF structure_name = "MSG_HEADER" THEN <<"size", "type">>
    ELSE IF structure_name = "GENERIC_DATA_BLOCK" THEN <<"ngates", "word_size">>
    ELSE <<"azimuth_number", "elevation_number">>

\* _unpack_structure(string, structure_name): dict(zip(content, lst)).
_unpack_structure(string, structure_name) ==
    [x \in {StructFields(structure_name)[i] : i \in 1..2} |->
        string[CHOOSE i \in 1..2 : StructFields(structure_name)[i] = x]]

\* A thread outside _unpack_from_buf.
Idle(calls) ==
    [pc |-> "idle", structure_name |-> "", s |-> <<>>, s_b |-> <<>>, dic |-> <<>>, calls |-> calls]

\* Two threads, each with its own decoder, and the globals of lines 969-971.
InitUnpack ==
    /\ s_before = [n \in StructNames |-> <<>>]
    /\ dic_before = [n \in StructNames |-> <<>>]
    /\ thread = [t \in Threads |-> Idle(0)]
    /\ self = BlankSelf
    /\ file = NoFile
    /\ pc = "threads"
    /\ err = "none"
    /\ fh_closed = FALSE
    /\ opens = 1
    /\ cache = {}
    /\ request = Mode("none")
    /\ reopened = FALSE
    /\ result = <<>>

decoder_vars == <<file, pc, err, fh_closed, opens, cache, self, request, reopened, result>>

\* line 976: a thread enters _unpack_from_buf with a slice of its buffer.
EnterUnpack(t, structure_name, s) ==
    /\ thread[t].pc = "idle"
    /\ thread[t].calls < MaxCalls
    /\ thread' = [thread EXCEPT ![t] = [thread[t] EXCEPT !.pc = "read_s_before",
                                                  !.structure_name = structure_name, !.s = s,
                                                  !.s_b = <<>>, !.dic = <<>>]]
    /\ UNCHANGED <<s_before, dic_before, decoder_vars>>

\* line 977: s_b = s_before[structure_name].
ReadSBefore(t) ==
    /\ thread[t].pc = "read_s_before"
    /\ thread' = [thread EXCEPT ![t] = [thread[t] EXCEPT !.pc = "compare", !.s_b = s_before[thread[t].structure_name]]]
    /\ UNCHANGED <<s_before, dic_before, decoder_vars>>

\* lines 978-979: if s != s_b: dic = _unpack_structure(s, structure_name).
CompareSlices(t) ==
    /\ thread[t].pc = "compare"
    /\ thread' = [thread EXCEPT ![t] =
                     IF thread[t].s # thread[t].s_b
                     THEN [thread[t] EXCEPT !.pc = "store_dic_before",
                                            !.dic = _unpack_structure(thread[t].s, thread[t].structure_name)]
                     ELSE [thread[t] EXCEPT !.pc = "read_dic_before"]]
    /\ UNCHANGED <<s_before, dic_before, decoder_vars>>

\* line 983, first store: dic_before[structure_name] = dic.
StoreDicBefore(t) ==
    /\ thread[t].pc = "store_dic_before"
    /\ dic_before' = [dic_before EXCEPT ![thread[t].structure_name] = thread[t].dic]
    /\ thread' = [thread EXCEPT ![t] = [thread[t] EXCEPT !.pc = "store_s_before"]]
    /\ UNCHANGED <<s_before, decoder_vars>>

\* line 983, second store: s_before[structure_name] = s.
StoreSBefore(t) ==
    /\ thread[t].pc = "store_s_before"
    /\ s_before' = [s_before EXCEPT ![thread[t].structure_name] = thread[t].s]
    /\ thread' = [thread EXCEPT ![t] = [thread[t] EXCEPT !.pc = "return"]]
    /\ UNCHANGED <<dic_before, decoder_vars>>

\* line 988: dic = dic_before[structure_name].
ReadDicBefore(t) ==
    /\ thread[t].pc = "read_dic_before"
    /\ thread' = [thread EXCEPT ![t] = [thread[t] EXCEPT !.pc = "return", !.dic = dic_before[thread[t].structure_name]]]
    /\ UNCHANGED <<s_before, dic_before, decoder_vars>>

\* line 989: return dic.
ReturnDic(t) ==
    /\ thread[t].pc = "return"
    /\ thread' = [thread EXCEPT ![t] = Idle(thread[t].calls + 1)]
    /\ UNCHANGED <<s_before, dic_before, decoder_vars>>

NextUnpack ==
    \E t \in Threads :
        \/ \E n \in StructNames, s \in Slices : EnterUnpack(t, n, s)
        \/ ReadSBefore(t)
        \/ CompareSlices(t)
        \/ StoreDicBefore(t)
        \/ StoreSBefore(t)
        \/ ReadDicBefore(t)
        \/ ReturnDic(t)

SpecUnpack == InitUnpack /\ [][NextUnpack]_vars

\* C15 as stated: under every interleaving of the two threads' unpack steps
\* a call of _unpack_from_buf returns the attribute map decoded from the byte
\* slice it was given, never a map cached from the other thread's bytes.
C15_AsStated ==
    \A t \in Threads :
        thread[t].pc = "return" =>
            thread[t].dic = _unpack_structure(thread[t].s, thread[t].structure_name)

\* The same with one thread only: the other never enters _unpack_from_buf.
AloneReturnsOwnMap == (\E t \in Threads : thread[t] = Idle(0)) => C15_AsStated

\* The indices of a scan increase in steps of 1.
Consecutive(msgs) == \A j \in 1..(Len(msgs) - 1) : msgs[j + 1] - msgs[j] = 1

\* A metadata-mode decode of two concatenated volumes has returned.
ConcatDecoded ==
    /\ Decoded
    /\ self.decode_meta
    /\ file \in ConcatFiles

\* C18 as stated: after a metadata-mode decode of a concatenated dual-volume
\* file every scan_msgs[i] holds only the trailing run of consecutive record
\* indices; the indices of the earlier volume are not in scan_msgs.
C18_AsStated ==
    ConcatDecoded =>
        \A i \in 1..Len(self.scan_msgs) :
            /\ Consecutive(self.scan_msgs[i])
            /\ self.scan_msgs[i] = TrailingRun(self.scan_msgs[i])

\* A bzip2 metadata-mode decode ('all-meta' or 'min-meta') has returned.
BzMetaDecoded ==
    /\ Decoded
    /\ self.decode_meta
    /\ self.bzip2_compression

\* The number (1-based) of the stream of the file that starts at position p.
StreamNumberAt(f, p) ==
    CHOOSE k \in 1..Len(f.streams) : _get_bzip2_start_indices(f)[k] = p

\* Record k is the placeholder, with start position -1, when the stream at
\* bzip2_start_pos[bzip2_read_indices[k]] gave an empty buffer, and a record
\* of that stream otherwise.
RecordsAligned ==
    /\ Len(self.records) = Len(self.bzip2_read_indices)
    /\ \A k \in 1..Len(self.records) :
          /\ self.records[k] # Placeholder =>
                self.records[k].id \div 100 =
                    StreamNumberAt(file, self.bzip2_start_pos[self.bzip2_read_indices[k] + 1])
          /\ self.records[k] = Placeholder => self.records_start_pos[k] = 0 - 1

\* C19 as stated: in bzip2 metadata mode the parser appends exactly one
\* record per decompressed stream buffer, the placeholder with start position
\* -1 for an empty buffer, so that record k was read from stream
\* bzip2_read_indices[k], also when stream 0 holds no record of type 1, 5 or 31.
C19_AsStated == BzMetaDecoded => RecordsAligned

\* Stream 0 of the file decompresses to a record of type 1, 5 or 31, or to nothing.
Stream0HasRecord ==
    \/ ~file.streams[1].ok
    \/ file.streams[1].recs = <<>>
    \/ \E j \in 1..Len(file.streams[1].recs) : file.streams[1].recs[j].t \in {1, 5, 31}

\* C19 on the files whose stream 0 holds a record of type 1, 5 or 31.
AlignedWithRecordInStream0 == (BzMetaDecoded /\ Stream0HasRecord) => RecordsAligned

\* The file with every stream decompressing correctly.
AllStreamsOk(f) == [f EXCEPT !.streams = [k \in 1..Len(f.streams) |-> [f.streams[k] EXCEPT !.ok = TRUE]]]

\* Lists of stream indices a caller may request: every index in order, in
\* reverse order, and each index alone.
RequestsOf(n) ==
    {Indices(n), [k \in 1..n |-> n - k]} \cup {<<i>> : i \in 0..(n - 1)}

\* The buffers _decompress_records_meta returns for a request: one per
\* index, in order; empty for a stream that fails; for the other streams the
\* buffer the file would give if every stream decompressed; stream 0 whole,
\* the others at most max_length bytes.
BuffersAsRequested(f, bzip2_start_pos, req, max_length, bufs) ==
    /\ Len(bufs) = Len(req)
    /\ \A j \in 1..Len(req) :
          /\ ~StreamAt(f, bzip2_start_pos[req[j] + 1]).ok => bufs[j] = EmptyBuf
          /\ StreamAt(f, bzip2_start_pos[req[j] + 1]).ok =>
                /\ bufs[j] = _decompress_records_meta(AllStreamsOk(f), bzip2_start_pos, <<req[j]>>, max_length)[1]
                /\ bufs[j].recs = StreamAt(f, bzip2_start_pos[req[j] + 1]).recs
                /\ req[j] = 0 => bufs[j].len = BytesOf(bufs[j].recs)
                /\ req[j] > 0 => bufs[j].len <= max_length

\* C20: ranged bzip2 decompression returns exactly one buffer per requested
\* stream index, in request order; a stream whose decompression fails gives
\* an empty buffer and the buffers of the other requested streams are those
\* the file gives when that stream decompresses; stream 0 is decompressed in
\* full, every other stream yields at most max_length bytes.
C20_OneBufferPerIndex ==
    BzMetaDecoded =>
        \A req \in RequestsOf(Len(self.bzip2_start_pos)) : \A max_length \in {META_MAX_LENGTH, RAD_MAX_LENGTH} :
            BuffersAsRequested(file, self.bzip2_start_pos, req, max_length,
                _decompress_records_meta(file, self.bzip2_start_pos, req, max_length))

\* A metadata decode read a file with a stream that fails to decompress
\* between streams that decompress: the failed stream gave the placeholder
\* record, and stream 0, longer than max_length, was read whole.
C20_Witness ==
    /\ BzMetaDecoded
    /\ request.kind = "all-meta"
    /\ \E k \in 2..(Len(self.records) - 1) :
          /\ self.records[k] = Placeholder
          /\ self.records[k - 1] # Placeholder
          /\ self.records[k + 1] # Placeholder
    /\ file.streams[1].ok
    /\ BytesOf(file.streams[1].recs) > META_MAX_LENGTH


(***************************************************************************)
(* Stream selection in the metadata modes (lines 164-204)                  *)
(*                                                                         *)
(* SpecIndex applies the bzip2 metadata read to files drawn from two       *)
(* families: volumes of 1..MaxStreams full-sized streams whose stream 0    *)
(* holds a VCP message with up to MaxCuts cuts, a VCP message without cut  *)
(* parameters or no VCP message at all (TDWR), and files of up to three    *)
(* streams whose compressed lengths lie around the 1000-byte threshold.    *)
(***************************************************************************)
MaxStreams == 7
MaxCuts == 2
SuperRes == {0, 7, 11}
StreamLens == {999, 1000, 1001}

Sized(st, n) == [st EXCEPT !.clen = n]

IndexHeads ==
    {<<StatusMsg>>} \cup {<<VcpMsg(cuts, 212)>> : cuts \in {<<>>} \cup SeqsUpTo(SuperRes, MaxCuts)}

LongFiles ==
    {BzFile(<<Stream(h)>> \o [k \in 1..n |-> RayStream(1, k)]) :
        h \in IndexHeads, n \in 0..(MaxStreams - 1)}

ThresholdFiles ==
    {BzFile([k \in 1..Len(ls) |->
                Sized(IF k = 1 THEN Stream(<<VcpMsg(<<0>>, 212)>>) ELSE RayStream(1, k - 1), ls[k])]) :
        ls \in SeqsUpTo(StreamLens, 3)}

IndexFiles == LongFiles \cup ThresholdFiles

InitIndex ==
    /\ file \in IndexFiles
    /\ self = [BlankSelf EXCEPT !.bzip2_compression = TRUE]
    /\ pc = "opened"
    /\ err = "none"
    /\ fh_closed = FALSE
    /\ opens = 1
    /\ cache = {}
    /\ request = Mode("none")
    /\ reopened = FALSE
    /\ result = <<>>
    /\ s_before = <<>>
    /\ dic_before = <<>>
    /\ thread = <<>>

\* lines 164-204 of decode_file on a bzip2 file opened in a metadata mode.
ReadMeta(read_mode) ==
    /\ pc = "opened"
    /\ LET cx == ReadBzMeta(file,
                     Ctx("none", [self EXCEPT !.decode_meta = TRUE, !.read_mode = read_mode],
                         cache, fh_closed, <<>>),
                     read_mode)
       IN /\ self' = cx.self
          /\ err' = cx.err
          /\ result' = cx.bufs
    /\ pc' = "meta"
    /\ request' = read_mode
    /\ UNCHANGED <<file, fh_closed, opens, cache, reopened, unpack_vars>>

NextIndex == \E kind \in {"all-meta", "min-meta"} : ReadMeta(Mode(kind))

SpecIndex == InitIndex /\ [][NextIndex]_vars

MetaRead == pc = "meta"

\* The distance from stream start k to the next start, or to the end of the
\* compressed buffer for the last start.
DistanceToNext(f, k) ==
    LET sp == _get_bzip2_start_indices(f)
    IN IF k < Len(sp) THEN sp[k + 1] - sp[k]
       ELSE (VOLUME_HEADER_SIZE + CONTROL_WORD_SIZE + SumSeq([j \in 1..Len(sp) |-> f.streams[j].clen])) - sp[k]

Discarded(k) == _get_bzip2_start_indices(file)[k] \notin Range(self.bzip2_start_pos)

\* C21: in a metadata mode a discovered stream start is discarded iff the
\* distance to the next start (to the end of the compressed buffer for the
\* last start) is less than 1000 bytes; a stream of exactly 1000 bytes is
\* kept.
C21_AsStated ==
    MetaRead =>
        \A k \in 1..Len(file.streams) :
            /\ Discarded(k) <=> DistanceToNext(file, k) < MIN_STREAM_DIFF
            /\ DistanceToNext(file, k) = MIN_STREAM_DIFF => ~Discarded(k)

\* What lines 171-175 do: a start is kept iff the distance exceeds 1000.
DiscardedUpTo1000 ==
    MetaRead =>
        \A k \in 1..Len(file.streams) :
            Discarded(k) <=> DistanceToNext(file, k) <= MIN_STREAM_DIFF


\* The running sums of 3 (6 for a cut whose super_resolution is 7 or 11)
\* over the cuts, for as long as the sum is below n.
RECURSIVE SumsBelow(_, _, _)
SumsBelow(cuts, acc, n) ==
    IF cuts = <<>> THEN <<>>
    ELSE IF acc + (IF Head(cuts) \in {7, 11} THEN 6 ELSE 3) >= n THEN <<>>
    ELSE <<acc + (IF Head(cuts) \in {7, 11} THEN 6 ELSE 3)>>
         \o SumsBelow(Tail(cuts), acc + (IF Head(cuts) \in {7, 11} THEN 6 ELSE 3), n)

WithLast(l, n) == IF l[Len(l)] # n - 1 THEN Append(l, n - 1) ELSE l

MinMetaRead == MetaRead /\ request.kind = "min-meta" /\ err = "none"

\* C22: in bzip2 'min-meta' mode with a VCP present, the stream indices to
\* read are 0, then the running sums of 3 (6 for a super-resolution cut)
\* over the VCP cuts for as long as the sum is below |S|, then |S|-1 if it is
\* not already the last element; the list is strictly increasing, within
\* [0, |S|) and ends with |S|-1.
C22_IndicesFollowVcp ==
    MinMetaRead /\ self.vcp # <<>> =>
        LET n  == Len(self.bzip2_start_pos)
            ri == self.bzip2_read_indices
        IN /\ ri = WithLast(<<0>> \o SumsBelow(self.vcp[1].cuts, 0, n), n)
           /\ \A k \in 1..(Len(ri) - 1) : ri[k] < ri[k + 1]
           /\ \A k \in 1..Len(ri) : ri[k] >= 0 /\ ri[k] < n
           /\ ri[Len(ri)] = n - 1

\* A volume of 7 streams whose VCP has a plain and a super-resolution cut:
\* the sum 3 is kept, the sum 9 is not, and the last stream 6 is added.
C22_Witness ==
    /\ MinMetaRead
    /\ self.vcp # <<>>
    /\ self.vcp[1].cuts = <<0, 7>>
    /\ Len(self.bzip2_start_pos) = 7
    /\ self.bzip2_read_indices = <<0, 3, 6>>


\* The streams 2, 5, 8, ... below n, followed by n - 1 if it is not already
\* the last element.
EveryThird(n) ==
    LET l == [k \in 1..(n \div 3) |-> 3 * k - 1]
    IN IF n < 3 THEN <<n - 1>> ELSE WithLast(l, n)

TdwrRead ==
    /\ MetaRead
    /\ request.kind = "min-meta"
    /\ self.bzip2_start_pos # <<>>
    /\ self.has_vcp
    /\ self.vcp = <<>>

\* C23: in bzip2 'min-meta' mode without a VCP, for every number of streams
\* |S| >= 1 the index selection completes and yields the streams 2, 5, 8,
\* ... below |S|, followed by |S|-1 if it is not already the last element.
C23_AsStated ==
    TdwrRead =>
        /\ err = "none"
        /\ self.bzip2_read_indices = EveryThird(Len(self.bzip2_start_pos))

\* What lines 191-204 do: the selection completes from three streams on.
TdwrFromThreeStreams ==
    TdwrRead =>
        IF Len(self.bzip2_start_pos) >= 3
        THEN err = "none" /\ self.bzip2_read_indices = EveryThird(Len(self.bzip2_start_pos))
        ELSE err = "IndexError"


(***************************************************************************)
(* The record cursor (lines 208-224, 359-393, 812-860)                     *)
(*                                                                         *)
(* SpecCursor runs the three while loops of the decoder step by step over  *)
(* one decompressed buffer: the gzip 'min-meta' pre-scan, the record       *)
(* parser, and the parser's search for a record with a RAD block.  A       *)
(* buffer is a sequence of up to MaxMsgs messages laid out back to back    *)
(* from the first record position, each with the four header fields the    *)
(* cursor depends on and the number of bytes it occupies; all other bytes  *)
(* are zero, so that a header read anywhere else is all zeros.  The buffer *)
(* may be cut short.  The outcome of the 'min-meta' check of lines 273-280 *)
(* depends on the decoded rays and is left open here.                      *)
(***************************************************************************)
MaxMsgs == 2
RAD_END == MSG_31_SIZE + VOLUME_DATA_BLOCK_SIZE + ELEVATION_DATA_BLOCK_SIZE + RADIAL_DATA_BLOCK_SIZE

WireHeader(type, size, segments, seg_num) ==
    [type |-> type, size |-> size, segments |-> segments, seg_num |-> seg_num]
ZeroHeader == WireHeader(0, 0, 0, 0)

WireMsg(header, rad, len) == [header |-> header, rad |-> rad, len |-> len]

\* Messages as the format lays them out, a type 31 header whose size field
\* is zero, and type 29 messages with and without the size escape 65535.
WireKinds ==
    {WireMsg(WireHeader(31, 1200, 1, 1), rad, 2428) : rad \in BOOLEAN}
    \cup {WireMsg(WireHeader(31, 40, 1, 1), FALSE, 92),
          WireMsg(WireHeader(31, 0, 1, 1), FALSE, 2428),
          WireMsg(WireHeader(29, 100, 1, 1), FALSE, 116),
          WireMsg(WireHeader(29, 65535, 0, 5), FALSE, 21),
          WireMsg(WireHeader(29, 65535, 1, 2), FALSE, 65554),
          WireMsg(WireHeader(1, 1208, 1, 1), FALSE, RECORD_SIZE),
          WireMsg(WireHeader(5, 1208, 1, 1), FALSE, RECORD_SIZE),
          WireMsg(WireHeader(2, 1208, 1, 1), FALSE, RECORD_SIZE)}

Cuts == {0, 8, 2000}

\* idx: the place of the buffer in the list given to _read_records.
CursorFiles ==
    {[bz |-> TRUE, wire |-> w, cut |-> c, idx |-> i] :
        w \in SeqsUpTo(WireKinds, MaxMsgs), c \in Cuts, i \in {0, 1}}
    \cup {[bz |-> FALSE, wire |-> w, cut |-> c, idx |-> 0] :
            w \in SeqsUpTo(WireKinds, MaxMsgs), c \in Cuts}

\* line 373: the first record position.
FirstPos(f) == IF f.bz THEN COMPRESSION_RECORD_SIZE ELSE 0

WireStart(f, k) == FirstPos(f) + SumSeq([j \in 1..(k - 1) |-> f.wire[j].len])
TotalLen(f) == Max(0, WireStart(f, Len(f.wire) + 1) - f.cut)

\* len(b) of the buffer the parser walks: a bzip2 metadata read stops at
\* max_length bytes for every stream but the first (lines 793-809).
BufLength(f, read_mode, max_length) ==
    IF f.bz /\ read_mode \in {"all-meta", "min-meta"} /\ f.idx > 0
    THEN Min(TotalLen(f), max_length) ELSE TotalLen(f)

WireAt(f, pos) ==
    IF \E k \in 1..Len(f.wire) : WireStart(f, k) = pos
    THEN f.wire[CHOOSE k \in 1..Len(f.wire) : WireStart(f, k) = pos]
    ELSE WireMsg(ZeroHeader, FALSE, 0)

\* _unpack_from_buf(buf, pos, 'MSG_HEADER'): struct.error on a short slice.
HeaderAt(f, buf_length, pos) ==
    IF pos + MSG_HEADER_SIZE > buf_length THEN [err |-> "struct.error", header |-> ZeroHeader]
    ELSE [err |-> "none", header |-> WireAt(f, pos).header]

RECURSIVE BitOr(_, _)
BitOr(a, b) ==
    IF a = 0 THEN b ELSE IF b = 0 THEN a
    ELSE 2 * BitOr(a \div 2, b \div 2) + (IF a % 2 = 1 \/ b % 2 = 1 THEN 1 ELSE 0)

\* Variant: the size field of a type 29 header is taken as it is.
Msg29SizeAsIs(pos, header) == pos + MSG_HEADER_SIZE + header.size

\* lines 837-843.
_get_msg29_from_buf(pos, header) ==
    pos + MSG_HEADER_SIZE
        + (IF header.size = 65535 THEN BitOr(header.segments * 65536, header.seg_num)
           ELSE header.size)

\* lines 849-853 of _get_msg31_from_buf: the new position, and whether the
\* MSG_31 structure fits into mbuf = buf[pos + 16 : new_pos].
Msg31NewPos(pos, header) == pos + MSG_HEADER_SIZE + (header.size * 2 - 4)
MbufLen(buf_length, pos, header) ==
    Max(0, Min(Msg31NewPos(pos, header), buf_length) - (pos + MSG_HEADER_SIZE))

\* _get_record_from_buf as far as the cursor is concerned: the exception
\* raised, the new position, and whether the record has a RAD block.
RecordAt(f, buf_length, pos) ==
    LET h == HeaderAt(f, buf_length, pos)
        t == h.header.type
    IN IF h.err # "none" THEN [err |-> h.err, new_pos |-> pos, rad |-> FALSE, type |-> 0]
       ELSE IF t = 31 THEN
           IF MbufLen(buf_length, pos, h.header) < MSG_31_SIZE
           THEN [err |-> "struct.error", new_pos |-> pos, rad |-> FALSE, type |-> t]
           ELSE [err |-> "none", new_pos |-> Msg31NewPos(pos, h.header),
                 rad |-> WireAt(f, pos).rad /\ MbufLen(buf_length, pos, h.header) >= RAD_END,
                 type |-> t]
       ELSE IF t = 5 THEN [err |-> "none", new_pos |-> pos + RECORD_SIZE, rad |-> FALSE, type |-> t]
       ELSE IF t = 29 THEN [err |-> "none", new_pos |-> _get_msg29_from_buf(pos, h.header), rad |-> FALSE, type |-> t]
       ELSE IF t = 1 THEN
           IF pos + MSG_HEADER_SIZE + MSG_1_SIZE > buf_length
           THEN [err |-> "struct.error", new_pos |-> pos, rad |-> FALSE, type |-> t]
           ELSE [err |-> "none", new_pos |-> pos + RECORD_SIZE, rad |-> FALSE, type |-> t]
       ELSE [err |-> "none", new_pos |-> pos + RECORD_SIZE, rad |-> FALSE, type |-> t]

\* lines 211-224: the step of the pre-scan for a header.
ScanSize(header) ==
    IF header.type = 31 THEN header.size * 2 - 4 + MSG_HEADER_SIZE
    ELSE IF header.type = 29
    THEN (IF header.size = 65535 THEN BitOr(header.segments * 65536, header.seg_num)
          ELSE header.size) + MSG_HEADER_SIZE
    ELSE RECORD_SIZE

\* Variant: the re-decode is asked for in every read mode.
FallsBackInAnyMode(read_mode, outcome) == outcome = "reopen"

\* line 277: only a 'min-meta' decode is repeated as 'all-meta'.
FallsBack(read_mode, outcome) == read_mode = "min-meta" /\ outcome = "reopen"

Loops(i, visited, indices, pos, buf_length, start_pos, records) ==
    [i |-> i, visited |-> visited, indices |-> indices, pos |-> pos,
     buf_length |-> buf_length, start_pos |-> start_pos, records |-> records]

ParserAt(f, read_mode, lp) ==
    [lp EXCEPT !.pos = FirstPos(f), !.buf_length = BufLength(f, read_mode, META_MAX_LENGTH),
               !.start_pos = <<>>, !.records = <<>>]

InitCursor ==
    /\ file \in CursorFiles
    /\ request \in {"all", "all-meta", "min-meta", "ranges"}
    /\ pc = "enter"
    /\ result = Loops(0, <<>>, <<>>, 0, 0, <<>>, <<>>)
    /\ self = BlankSelf
    /\ err = "none"
    /\ fh_closed = FALSE
    /\ opens = 0
    /\ cache = {}
    /\ reopened = FALSE
    /\ s_before = <<>>
    /\ dic_before = <<>>
    /\ thread = <<>>

cursor_frame == <<file, self, fh_closed, cache, unpack_vars>>

\* lines 162-242: a gzip 'min-meta' decode scans the payload first.
Enter ==
    /\ pc = "enter"
    /\ opens' = opens + 1
    /\ IF ~file.bz /\ request = "min-meta"
       THEN pc' = "prescan" /\ result' = [result EXCEPT !.i = 0, !.visited = <<>>, !.indices = <<>>]
       ELSE pc' = "parse" /\ result' = ParserAt(file, request, result)
    /\ UNCHANGED <<err, request, reopened, cursor_frame>>

\* lines 210-228: one turn of the pre-scan loop, or its exit.
ScanHeader ==
    /\ pc = "prescan"
    /\ IF result.i < TotalLen(file)
       THEN LET h == HeaderAt(file, TotalLen(file), result.i)
            IN IF h.err # "none"
               THEN pc' = "raised" /\ err' = h.err
                    /\ result' = [result EXCEPT !.visited = Append(@, result.i)]
               ELSE /\ result' = [result EXCEPT
                                     !.visited = Append(@, result.i),
                                     !.indices = IF h.header.type \in {1, 31} THEN Append(@, result.i) ELSE @,
                                     !.i = @ + ScanSize(h.header)]
                    /\ UNCHANGED <<pc, err>>
       ELSE IF result.indices = <<>>
            THEN pc' = "raised" /\ err' = "IndexError" /\ UNCHANGED result
            ELSE pc' = "parse" /\ result' = ParserAt(file, request, result) /\ UNCHANGED err
    /\ UNCHANGED <<opens, request, reopened, cursor_frame>>

Meta == request \in {"all-meta", "min-meta"}

\* lines 374-393: one turn of the parser's loop, or its exit.
ParseRecord ==
    /\ pc = "parse"
    /\ IF result.pos < result.buf_length
       THEN LET r == RecordAt(file, result.buf_length, result.pos)
                sp == Append(result.start_pos, result.pos)
            IN IF r.err # "none"
               THEN pc' = "raised" /\ err' = r.err /\ result' = [result EXCEPT !.start_pos = sp]
               ELSE IF file.bz /\ Meta /\ file.idx > 0 /\ ~r.rad
               THEN /\ pc' = "search"
                    /\ result' = [result EXCEPT !.start_pos = sp, !.pos = COMPRESSION_RECORD_SIZE,
                                                !.buf_length = BufLength(file, request, RAD_MAX_LENGTH),
                                                !.records = Append(@, r.type)]
                    /\ UNCHANGED err
               ELSE IF file.bz /\ Meta /\ file.idx = 0 /\ r.type \notin {1, 31, 5}
               THEN /\ result' = [result EXCEPT !.start_pos = sp, !.pos = r.new_pos]
                    /\ UNCHANGED <<pc, err>>
               ELSE /\ result' = [result EXCEPT !.start_pos = sp, !.pos = r.new_pos,
                                                !.records = Append(@, r.type)]
                    /\ pc' = IF file.bz /\ Meta THEN "check" ELSE "parse"
                    /\ UNCHANGED err
       ELSE pc' = "check" /\ UNCHANGED <<err, result>>
    /\ UNCHANGED <<opens, request, reopened, cursor_frame>>

\* lines 381-384: one turn of the search for a record with a RAD block in
\* the stream decompressed up to 10000 bytes; the record found, or the last
\* one parsed, replaces the one without.
SearchRad ==
    /\ pc = "search"
    /\ IF result.pos < result.buf_length
       THEN LET r == RecordAt(file, result.buf_length, result.pos)
            IN IF r.err # "none"
               THEN pc' = "raised" /\ err' = r.err /\ UNCHANGED result
               ELSE /\ result' = [result EXCEPT !.pos = r.new_pos,
                                                !.records = [@ EXCEPT ![Len(@)] = r.type]]
                    /\ pc' = IF r.rad THEN "check" ELSE "search"
                    /\ UNCHANGED err
       ELSE pc' = "check" /\ UNCHANGED <<err, result>>
    /\ UNCHANGED <<opens, request, reopened, cursor_frame>>

\* lines 262-284: no radial records raise ValueError; a 'min-meta' decode
\* that fails its check runs decode_file again as 'all-meta' and returns.
Check ==
    /\ pc = "check"
    /\ \E outcome \in {"ok", "reopen", "ValueError"} :
          IF outcome = "ValueError"
          THEN pc' = "raised" /\ err' = "ValueError" /\ UNCHANGED <<request, reopened>>
          ELSE IF FallsBack(request, outcome)
          THEN pc' = "enter" /\ request' = "all-meta" /\ reopened' = TRUE /\ UNCHANGED err
          ELSE pc' = "done" /\ UNCHANGED <<err, request, reopened>>
    /\ UNCHANGED <<opens, result, cursor_frame>>

NextCursor == Enter \/ ScanHeader \/ ParseRecord \/ SearchRad \/ Check

SpecCursor == InitCursor /\ [][NextCursor]_vars

\* The decoder is one sequential program: a step that can be taken is taken.
SpecCursorFair == SpecCursor /\ WF_vars(NextCursor)


\* The advance the format prescribes for a header.
RuleSize(h) ==
    IF h.type = 31 THEN MSG_HEADER_SIZE + h.size * 2 - 4
    ELSE IF h.type = 29
    THEN MSG_HEADER_SIZE + (IF h.size = 65535 THEN h.segments * 65536 + h.seg_num ELSE h.size)
    ELSE RECORD_SIZE


\* A step of the parser or of its search that parsed a record.
ParsedOne ==
    /\ pc \in {"parse", "search"}
    /\ pc' \in {"parse", "search", "check"}
    /\ ~(pc = "parse" /\ pc' = "search")
    /\ result.pos < result.buf_length

ScannedOne == pc = "prescan" /\ pc' = "prescan"

\* The parser has walked the buffer the pre-scan walked before.
SameBufferWalked ==
    ~file.bz /\ request = "min-meta" /\ pc \in {"parse", "check", "done", "raised"}

\* C24: the record cursor advances by sizeof(MSG_HEADER) + size*2 - 4 for
\* type 31, by sizeof(MSG_HEADER) + effective size for type 29 (the size
\* field, or (segments << 16) | seg_num when the field is 65535), and by
\* RECORD_SIZE for every other type; the gzip 'min-meta' pre-scan applies
\* the same rule, so the offsets it visits are the record start positions
\* the parser produces for the same buffer (all of them once the parser has
\* reached the end of the buffer, the first of them while it is on its way
\* or when it raised).
C24_CursorFollowsRule ==
    /\ [][(ParsedOne => result'.pos - result.pos = RuleSize(WireAt(file, result.pos).header))
          /\ (ScannedOne => result'.i - result.i = RuleSize(WireAt(file, result.i).header))]_vars
    /\ [](SameBufferWalked =>
            /\ IsPrefix(result.start_pos, result.visited)
            /\ pc \in {"check", "done"} => result.start_pos = result.visited)

\* Pre-scan and parser have walked a payload of a type 29 message with the
\* size escape followed by a ray: both stopped at 0 and at 16 + 5.
C24_Witness ==
    /\ SameBufferWalked
    /\ pc = "done"
    /\ WireAt(file, 0).header = WireHeader(29, 65535, 0, 5)
    /\ result.visited = <<0, 21>>
    /\ result.start_pos = <<0, 21>>
    /\ result.indices = <<21>>


Finished == pc \in {"done", "raised"}

\* C25: decode_file terminates for every finite input in every read mode:
\* the cursor strictly increases with every record parsed by the parser, by
\* its search for a RAD block and by the gzip pre-scan, whatever the type
\* and the size field of the header; decode_file is entered at most twice,
\* the second time only from a 'min-meta' decode and as 'all-meta'; and
\* every decode comes to its end or raises.
C25_DecodeTerminates ==
    /\ [][(ParsedOne => result'.pos > result.pos)
          /\ (ScannedOne => result'.i > result.i)
          /\ (pc = "check" /\ pc' = "enter" => request = "min-meta" /\ request' = "all-meta")]_vars
    /\ [](opens <= 2)
    /\ <>Finished

\* A gzip 'min-meta' decode whose pre-scan and parser walked two or more
\* records fell back to 'all-meta', parsed the payload again and returned.
C25_Witness ==
    /\ pc = "done"
    /\ reopened
    /\ opens = 2
    /\ ~file.bz
    /\ Len(result.visited) >= 2
    /\ result.start_pos = result.visited


(***************************************************************************)
(* Per-scan byte ranges and the repair of concatenated volumes             *)
(***************************************************************************)
MetaReturned == pc = "ready" /\ request.kind \in {"all-meta", "min-meta"}

Contiguous(se) ==
    /\ \A k \in 1..(Len(se) - 1) : se[k][2] = se[k + 1][1]
    /\ se # <<>> => se[Len(se)][2] = None

\* The offset of the radial found by backing off the sampled index of scan
\* k's first record by its azimuth number - 1, clamped to zero.
BackedOff(slf, k) ==
    LET idx == TrailingRun(slf.scan_msgs[k])[1]
    IN PyGet(slf.indices,
             Max(0, PyGet(IndicesSelect(Len(slf.indices)), idx) - PyGet(slf.radial_records, idx).a + 1))

GzMinMetaKept == MetaReturned /\ ~file.bz /\ request.kind = "min-meta" /\ ~reopened

\* C26: in every metadata mode and for both containers the per-scan byte
\* ranges are contiguous (end_pos of every scan but the last equals the
\* start_pos of the next, the last end_pos is None); for gzip 'min-meta'
\* both bounds are the offsets of the radials found by backing off the
\* sampled index by azimuth_number - 1, clamped to zero.
C26_AsStated ==
    /\ MetaReturned => Contiguous(self.scan_startend_pos)
    /\ GzMinMetaKept =>
          \A k \in 1..Len(self.scan_startend_pos) :
              /\ self.scan_startend_pos[k][1] = BackedOff(self, k)
              /\ k < Len(self.scan_startend_pos) =>
                    self.scan_startend_pos[k][2] = BackedOff(self, k + 1)

\* What lines 310-323 do: the ranges are contiguous except after a gzip
\* 'min-meta' decode, where only start_pos is clamped.
ContiguousButGzMinMeta ==
    /\ MetaReturned /\ ~GzMinMetaKept => Contiguous(self.scan_startend_pos)
    /\ GzMinMetaKept =>
          \A k \in 1..Len(self.scan_startend_pos) :
              self.scan_startend_pos[k][1] = BackedOff(self, k)


\* The place in records of radial record number i (0-based), and the entry
\* of radial_records_start_pos for it (lines 255-261).
RadialPos(slf, i) ==
    LET place == RadialPlaces(slf.records, slf.msg_type)[i + 1]
    IN IF slf.bzip2_compression THEN slf.bzip2_read_indices[place]
       ELSE slf.records_start_pos[place]

\* The start of the longest suffix of M whose consecutive elements differ by 1.
RunStart(M) ==
    CHOOSE k \in 1..Len(M) :
        /\ \A j \in k..(Len(M) - 1) : M[j + 1] = M[j] + 1
        /\ k > 1 => M[k] # M[k - 1] + 1

\* start_pos of scan k as lines 310-323 take it from the first indices first.
RangeStartFrom(slf, first, k) ==
    IF slf.bzip2_compression
    THEN IF slf.read_mode.kind = "min-meta"
         THEN IF k > 1 THEN PyGet(slf.bzip2_start_pos, RadialPos(slf, first[k - 1]) + 1)
              ELSE PyGet(slf.bzip2_start_pos, 1)
         ELSE PyGet(slf.bzip2_start_pos, RadialPos(slf, first[k]))
    ELSE IF slf.read_mode.kind = "min-meta"
         THEN PyGet(slf.indices,
                    Max(0, PyGet(IndicesSelect(Len(slf.indices)), first[k])
                           - PyGet(slf.radial_records, first[k]).a + 1))
         ELSE RadialPos(slf, first[k])

\* C27: the repair maps every scan's sorted index list M to the longest
\* suffix of M in which consecutive elements differ by exactly 1: the result
\* is non-empty, ends with the last element of M, is a run of consecutive
\* integers, and the element of M just before it (if any) is not its
\* predecessor; the per-scan byte ranges start from the first index of the
\* repaired list.
C27_RepairKeepsLongestRun ==
    MetaReturned =>
        /\ \A k \in 1..Len(self.scan_msgs) :
              LET M == self.scan_msgs[k]
                  R == TrailingRun(M)
              IN /\ R # <<>>
                 /\ R = SubSeq(M, Len(M) - Len(R) + 1, Len(M))
                 /\ R[Len(R)] = M[Len(M)]
                 /\ \A j \in 1..(Len(R) - 1) : R[j + 1] = R[j] + 1
                 /\ Len(R) < Len(M) => M[Len(M) - Len(R)] + 1 # R[1]
        /\ Len(self.scan_startend_pos) = Len(self.scan_msgs)
        /\ \A k \in 1..Len(self.scan_msgs) :
              self.scan_startend_pos[k][1] =
                  RangeStartFrom(self, [j \in 1..Len(self.scan_msgs) |->
                                           self.scan_msgs[j][RunStart(self.scan_msgs[j])]], k)

\* An 'all-meta' decode of two concatenated gzip volumes: scan 0 holds the
\* rays 0..29 of the first volume and 30..59 of the second, and its range
\* starts at ray 30.
C27_Witness ==
    /\ MetaReturned
    /\ ~file.bz
    /\ request.kind = "all-meta"
    /\ file \in ConcatFiles
    /\ Len(self.scan_msgs[1]) > Len(TrailingRun(self.scan_msgs[1]))
    /\ self.scan_startend_pos[1][1] = RadialPos(self, TrailingRun(self.scan_msgs[1])[1])
    /\ self.scan_startend_pos[1][1] > RadialPos(self, self.scan_msgs[1][1])


decoder_vars_but_result == <<file, pc, err, fh_closed, opens, cache, self, request, reopened>>

(***************************************************************************)
(* The memoized structure unpack, one thread (lines 966-996)               *)
(*                                                                         *)
(* Python dicts are objects: heap maps an object number to the attribute   *)
(* map it holds, dic_before holds object numbers, and a caller holds the   *)
(* object number it was returned.  SpecMemo makes up to MaxUnpacks calls   *)
(* of _unpack_from_buf, one after the other, and lets a caller modify a    *)
(* map it holds (as line 890 attaches the data to a moment block).         *)
(* thread.modified records that a map of another structure was modified,   *)
(* which the decoder itself never does.                                    *)
(***************************************************************************)
MaxUnpacks == 3

MemoNames == StructNames \cup {"GENERIC_DATA_BLOCK"}
Products == {"REF", "VEL"}
NoProduct == "None"

\* Slices of the full size of the structure, and one cut short by the end of
\* the buffer.
MemoSlices == Slices \cup {<<1>>}

MemoCalls ==
    {<<n, NoProduct, s>> : n \in StructNames, s \in MemoSlices}
    \cup {<<"GENERIC_DATA_BLOCK", p, s>> : p \in Products, s \in MemoSlices}

\* The key of the cache entry a call uses: the structure name, and for
\* generic moment blocks the product as well.
MemoKeys == {<<c[1], c[2]>> : c \in MemoCalls}

\* struct.unpack raises struct.error on a slice shorter than the structure.
Unpackable(s) == Len(s) = 2

\* A call as the caller sees it: the exception raised, the object returned
\* (id) and what it held when it was returned (dic), and whether it was a hit.
Call0 ==
    [name |-> "", product |-> NoProduct, s |-> <<>>, err |-> "none", id |-> 0, dic |-> <<>>,
     hit |-> FALSE]

\* lines 969-971: nothing cached; object 0 is the initial ''.
InitMemo ==
    /\ s_before = [k \in MemoKeys |-> <<>>]
    /\ dic_before = [k \in MemoKeys |-> 0]
    /\ thread = [heap |-> <<>>, held |-> <<>>, modified |-> FALSE]
    /\ result = <<>>
    /\ pc = "memo"
    /\ file = NoFile
    /\ self = BlankSelf
    /\ err = "none"
    /\ fh_closed = FALSE
    /\ opens = 0
    /\ cache = {}
    /\ request = Mode("none")
    /\ reopened = FALSE

\* Variant: two slices are taken for the same when their first bytes agree.
FirstByteDiffers(s, s_b) == s_b = <<>> \/ s[1] # s_b[1]

\* line 978: s != s_b.
SliceDiffers(s, s_b) == s # s_b

\* lines 985-988: the object a hit returns, and the heap after it.
HitObject(structure_name, product, heap) ==
    IF structure_name = "GENERIC_DATA_BLOCK"
    THEN [id |-> Len(heap) + 1, heap |-> Append(heap, heap[dic_before[<<structure_name, product>>]])]
    ELSE [id |-> dic_before[<<structure_name, product>>], heap |-> heap]

\* _unpack_from_buf(buf, pos, structure_name, product) with s = buf[pos : pos + size].
Unpack(structure_name, product, s) ==
    LET key  == <<structure_name, product>>
        heap == thread.heap
        call == [Call0 EXCEPT !.name = structure_name, !.product = product, !.s = s]
    IN /\ pc = "memo"
       /\ Len(result) < MaxUnpacks
       /\ IF SliceDiffers(s, s_before[key])
          THEN IF ~Unpackable(s)
               THEN /\ result' = Append(result, [call EXCEPT !.err = "struct.error"])
                    /\ UNCHANGED <<s_before, dic_before, thread>>
               ELSE LET dic == _unpack_structure(s, structure_name)
                    IN /\ result' = Append(result, [call EXCEPT !.id = Len(heap) + 1, !.dic = dic])
                       /\ s_before' = [s_before EXCEPT ![key] = s]
                       /\ IF structure_name = "GENERIC_DATA_BLOCK"
                          THEN /\ dic_before' = [dic_before EXCEPT ![key] = Len(heap) + 2]
                               /\ thread' = [thread EXCEPT !.heap = heap \o <<dic, dic>>,
                                                           !.held = Append(@, Len(heap) + 1)]
                          ELSE /\ dic_before' = [dic_before EXCEPT ![key] = Len(heap) + 1]
                               /\ thread' = [thread EXCEPT !.heap = Append(heap, dic),
                                                           !.held = Append(@, Len(heap) + 1)]
          ELSE LET r == HitObject(structure_name, product, heap)
               IN /\ result' = Append(result, [call EXCEPT !.id = r.id, !.dic = r.heap[r.id], !.hit = TRUE])
                  /\ thread' = [thread EXCEPT !.heap = r.heap, !.held = Append(@, r.id)]
                  /\ UNCHANGED <<s_before, dic_before>>
       /\ UNCHANGED decoder_vars_but_result

\* dic["data"] = data on the map returned by call number h.
WithData(m) == [x \in DOMAIN m \cup {"data"} |-> IF x = "data" THEN <<1, 2>> ELSE m[x]]

Modify(h) ==
    /\ pc = "memo"
    /\ result[h].err = "none"
    /\ "data" \notin DOMAIN thread.heap[result[h].id]
    /\ thread' = [thread EXCEPT !.heap[result[h].id] = WithData(@),
                                !.modified = @ \/ result[h].name # "GENERIC_DATA_BLOCK"]
    /\ UNCHANGED <<s_before, dic_before, result, decoder_vars_but_result>>

NextMemo ==
    \/ \E c \in MemoCalls : Unpack(c[1], c[2], c[3])
    \/ \E h \in 1..Len(result) : Modify(h)

SpecMemo == InitMemo /\ [][NextMemo]_vars


\* The slice of the last call before call h that unpacked the same structure
\* (and product) without raising; <<>> if there is none.
LastSeen(log, h) ==
    LET same == {j \in 1..(h - 1) : /\ log[j].name = log[h].name
                                    /\ log[j].product = log[h].product
                                    /\ log[j].err = "none"}
    IN IF same = {} THEN <<>> ELSE log[CHOOSE j \in same : \A i \in same : i <= j].s

\* C28: the memoized unpack is transparent: in every sequence of unpack
\* calls (with the data attached to returned moment blocks in between, as
\* the decoder does) each call returns an attribute map equal to an uncached
\* decode of the slice it was given (and raises where the uncached decode
\* raises), and a cache hit occurs only when the slice equals the last slice
\* unpacked for the same structure name and, for generic moment blocks, the
\* same product.
C28_MemoTransparent ==
    pc = "memo" /\ ~thread.modified =>
        \A h \in 1..Len(result) :
            /\ (result[h].err # "none") <=> ~Unpackable(result[h].s)
            /\ result[h].err = "none" =>
                  result[h].dic = _unpack_structure(result[h].s, result[h].name)
            /\ result[h].hit => result[h].s = LastSeen(result, h)

\* Three calls for the REF block: a miss, a hit on the same bytes, and a miss
\* on other bytes; the data was attached to the first map, and the map the
\* hit returned held none.
C28_Witness ==
    /\ pc = "memo"
    /\ ~thread.modified
    /\ Len(result) = 3
    /\ \A h \in 1..3 : /\ result[h].name = "GENERIC_DATA_BLOCK"
                       /\ result[h].product = "REF"
                       /\ result[h].err = "none"
    /\ ~result[1].hit /\ result[2].hit /\ ~result[3].hit
    /\ result[3].s # result[2].s
    /\ "data" \in DOMAIN thread.heap[result[1].id]
    /\ "data" \notin DOMAIN result[2].dic


\* The step modifies the map returned by call h.
Modifies(h) ==
    /\ Len(result') = Len(result)
    /\ result[h].err = "none"
    /\ thread'.heap[result[h].id] # thread.heap[result[h].id]

\* The step leaves alone the cached maps and the maps returned by the calls
\* other than h.
OthersUntouched(h) ==
    /\ \A k \in MemoKeys :
          dic_before[k] # 0 => thread'.heap[dic_before[k]] = thread.heap[dic_before[k]]
    /\ \A g \in 1..Len(result) :
          g # h /\ result[g].err = "none" =>
              thread'.heap[result[g].id] = thread.heap[result[g].id]

\* C30: a map returned on a cache hit is a copy, for every structure name:
\* modifying it changes neither the cached map nor the map held by any other
\* record decoded from byte-equal bytes.
C30_AsStated ==
    [][\A h \in 1..Len(result) : Modifies(h) /\ result[h].hit => OthersUntouched(h)]_vars

\* What lines 985-988 do: only a hit on a generic moment block is a copy.
GenericHitsAreCopies ==
    [][\A h \in 1..Len(result) :
          Modifies(h) /\ result[h].hit /\ result[h].name = "GENERIC_DATA_BLOCK"
          => OthersUntouched(h)]_vars


(***************************************************************************)
(* The gzip read cache (lines 345-357)                                     *)
(*                                                                         *)
(* SpecGzip applies up to MaxReads full and ranged reads to a gzip source  *)
(* whose decompressed payload is the bytes 1..n, n <= MaxBytes.  self      *)
(* holds the cached bytes _buf and the position of the handle _fh, which   *)
(* stands behind the volume header and the compression record (line 154).  *)
(***************************************************************************)
MaxBytes == 4
MaxReads == 3

GzSources == {[bz |-> FALSE, payload |-> [k \in 1..n |-> k]] : n \in 0..MaxBytes}

\* s[a:b] for a >= 0 and b None or >= 0.
PySlice(s, a, b) ==
    LET hi == IF b = None THEN Len(s) ELSE Min(b, Len(s))
    IN IF a >= hi THEN <<>> ELSE SubSeq(s, a + 1, hi)

\* self._fh.read(n), n = None for read(): the bytes and the new position.
FhRead(f, fh_pos, n) ==
    LET to == IF n = None THEN Len(f.payload) ELSE Min(Len(f.payload), fh_pos + n)
    IN [bytes |-> PySlice(f.payload, fh_pos, to), fh_pos |-> Max(fh_pos, to)]

InitGzip ==
    /\ file \in GzSources
    /\ self = [_buf |-> <<>>, fh_pos |-> 0]
    /\ result = [calls |-> 0, range |-> <<>>, buf |-> <<>>]
    /\ pc = "gzip"
    /\ err = "none"
    /\ fh_closed = FALSE
    /\ opens = 1
    /\ cache = {}
    /\ request = Mode("none")
    /\ reopened = FALSE
    /\ s_before = <<>>
    /\ dic_before = <<>>
    /\ thread = <<>>

gzip_frame == <<file, pc, err, fh_closed, opens, cache, request, reopened, unpack_vars>>

\* lines 355-357: _read_gzip().
FullRead ==
    /\ pc = "gzip"
    /\ result.calls < MaxReads
    /\ LET r == FhRead(file, self.fh_pos, None)
       IN /\ self' = [_buf |-> self._buf \o r.bytes, fh_pos |-> r.fh_pos]
          /\ result' = [calls |-> result.calls + 1, range |-> <<>>, buf |-> self._buf \o r.bytes]
    /\ UNCHANGED gzip_frame

\* lines 346-354: _read_gzip([a, b]).
RangedRead(a, b) ==
    /\ pc = "gzip"
    /\ result.calls < MaxReads
    /\ LET l == Len(self._buf)
           r == IF b = None \/ b = 0 THEN FhRead(file, self.fh_pos, None)
                ELSE IF l < b THEN FhRead(file, self.fh_pos, b - l)
                ELSE [bytes |-> <<>>, fh_pos |-> self.fh_pos]
       IN /\ self' = [_buf |-> self._buf \o r.bytes, fh_pos |-> r.fh_pos]
          /\ result' = [calls |-> result.calls + 1, range |-> <<a, b>>,
                        buf |-> PySlice(self._buf \o r.bytes, a, b)]
    /\ UNCHANGED gzip_frame

NextGzip ==
    \/ FullRead
    \/ \E a \in 0..MaxBytes, b \in {None} \cup 0..(MaxBytes + 1) : RangedRead(a, b)

SpecGzip == InitGzip /\ [][NextGzip]_vars

CachedPrefix == self._buf = SubSeq(file.payload, 1, Len(self._buf))

\* The step is a ranged read whose end lies within the cached length.
RangedWithin ==
    /\ result'.calls = result.calls + 1
    /\ result'.range # <<>>
    /\ result'.range[2] # None
    /\ result'.range[2] <= Len(self._buf)

\* C29: after any sequence of full and ranged reads of a gzip source the
\* cached buffer is a prefix of the decompressed payload and its length
\* never decreases; a ranged read whose end lies within the cached length
\* reads nothing further from the source and returns the bytes of the
\* corresponding slice of a full read.
C29_AsStated ==
    /\ [](pc = "gzip" => CachedPrefix)
    /\ [][Len(self'._buf) >= Len(self._buf)]_vars
    /\ [][RangedWithin =>
            /\ self'.fh_pos = self.fh_pos
            /\ self'._buf = self._buf
            /\ result'.buf = PySlice(file.payload, result'.range[1], result'.range[2])]_vars

\* What lines 346-354 do: the same, but an end of 0 is taken for no end and
\* reads the rest of the source.
WithinPositiveEndIsFree ==
    /\ [](pc = "gzip" => CachedPrefix)
    /\ [][Len(self'._buf) >= Len(self._buf)]_vars
    /\ [][RangedWithin =>
            /\ result'.range[2] > 0 => self'.fh_pos = self.fh_pos /\ self'._buf = self._buf
            /\ result'.buf = PySlice(file.payload, result'.range[1], result'.range[2])]_vars
====
